---- MODULE Spec2Model ----
(***************************************************************************)
(* Model of the GAJ server (server/server.js): the users table, the        *)
(* startup bootstrap of the default admin, and the HTTP handlers of the    *)
(* user directory.  A handler is cut between two statements it sends to    *)
(* the store, which is where the event loop lets another request in.  The  *)
(* parsing of the body, the validation of its fields and the bcrypt        *)
(* computations read and write no shared state, so each is folded into the *)
(* store statement that follows it (or, for the compare of /login, that    *)
(* precedes it).                                                           *)
(***************************************************************************)
EXTENDS Integers, FiniteSets, Sequences, TLC

\* ------------------------------------------------------------------ bounds
\* highest id the AUTOINCREMENT counter may hand out in a run
MaxId == 2
\* number of requests the server handles at the same time
MaxReq == 2

Reqs == 1..MaxReq

\* ------------------------------------------------------------- JS values
\* A string used as a password is [fmt, of]: fmt "text" is an ordinary
\* string, fmt "$2" is a string that is the bcrypt digest of the string `of`,
\* fmt "number" is a JSON number, fmt "undefined" is a missing/empty field.
Plain(s) == [fmt |-> "text", of |-> s]
NoPassword == [fmt |-> "undefined", of |-> ""]
NumberPassword == [fmt |-> "number", of |-> "7"]

adminEmail == "admin@admin.com"
adminPassword == Plain("admin")

Emails == {adminEmail, "ana@gaj.com"}
Names == {"Ana"}
Cpfs == {"111"}
\* the password the registering clients choose
UserPassword == Plain("secret")
PlainPasswords == {adminPassword, UserPassword}

\* bcrypt.hash resolves with a digest of a string and rejects anything else.
HashFails(password) == password.fmt \notin {"text", "$2"}
hashPassword(password) == [fmt |-> "$2", of |-> password.of]

\* every string a client may send as a password: the plain ones and the
\* text of every digest the store can hold
Digests == {hashPassword(p) : p \in PlainPasswords}
LoginPasswords == PlainPasswords \cup Digests \cup {NumberPassword}

\* bcrypt.compare(password, hash): true iff hash is a digest of password;
\* a non-string argument is an error, which checkPassword rejects with.
CompareFails(password, hash) == password.fmt = "number"
checkPassword(password, hash) ==
    /\ hash.fmt = "$2"
    /\ password.fmt = "text"
    /\ password.of = hash.of

startsWith2(pwd) == pwd.fmt = "$2"

\* values of the optional body fields approved / is_admin, as JSON gives them
\* FlagOf with the flag set unless the body says 0
FlagOfDefaultOne(v) == IF v \in {"0", "false"} THEN 0 ELSE 1

\* body.approved === 1 || body.approved === '1' ? 1 : 0
FlagOf(v) == IF v = "1" \/ v = "'1'" THEN 1 ELSE 0
\* the boolean a caller means by a flag value
Meant(v) == IF v \in {"1", "'1'", "true"} THEN 1 ELSE 0

\* body.id: NoId stands for a body without id
NoId == 0 - 1
Ids == 1..MaxId

\* ------------------------------------------------------------------ rows
\* what db.get hands to its callback when no row matches; a column that a
\* SELECT does not name keeps the value it has here
NoRow == [id |-> 0, name |-> "", email |-> "", password |-> NoPassword,
          cpf |-> "", is_admin |-> 0 - 1, approved |-> 0 - 1]
Columns == {"id", "name", "email", "password", "cpf", "is_admin", "approved"}

Row(i, n, e, p, c, adm, appr) ==
    [id |-> i, name |-> n, email |-> e, password |-> p,
     cpf |-> c, is_admin |-> adm, approved |-> appr]

\* the row the bootstrap inserts (cpf is not given: NULL)
AdminRow(i, p) == Row(i, "Admin", adminEmail, p, "NULL", 1, 1)

VARIABLES
    users,     \* the rows of table users
    nextId,    \* sqlite_sequence of users: the last id AUTOINCREMENT gave
    boot,      \* the bootstrap's position and locals
    req,       \* per request: its handler's position, body, locals, response
    removed,   \* history: id and email of every row DELETE has removed
    public,    \* history: the ids of the rows of public registrations
    time,      \* the value validateHour is called with
    valid,     \* what the call of validateHour came to
    schedules, \* the rows of table schedules
    schedSeq,  \* sqlite_sequence of schedules
    sreq,      \* the request to /schedules answered last, and its response
    created,   \* history: id and body of the last accepted POST /schedules,
               \* as long as no PUT or DELETE has changed its row
    todayYear,     \* Home: the year of the day the page is looked at
    todayMonth,    \* Home: its month, 0 for January
    displayYear,   \* Home: state displayYear
    displayMonth,  \* Home: state displayMonth
    selectedDate,  \* Home: state selectedDate
    homeSchedules, \* Home: state schedules, the rows that fetch has loaded
    localStorage,  \* the browser's localStorage: the client-held session
    path,          \* the route the browser shows
    fetched,       \* what the last fetch of /login came to
    hreq,          \* one HTTP request: its route, body and handler position
    socket,        \* the connection of that request
    delivered      \* the responses the client has received for it

userVars == <<users, nextId, boot, req, removed, public>>
timeVars == <<time, valid>>
schedVars == <<schedules, schedSeq, sreq, created>>
calVars == <<todayYear, todayMonth, displayYear, displayMonth, selectedDate,
            homeSchedules>>
sessionVars == <<localStorage, path, fetched>>
clientVars == <<calVars, sessionVars>>
httpVars == <<hreq, socket, delivered>>
vars == <<userVars, timeVars, schedVars, clientVars, httpVars>>


\* ----------------------------------------------------------------- store
HasEmail(e) == \E u \in users : u.email = e
HasId(i) == \E u \in users : u.id = i

\* a lookup by email that finds nothing (the comparison never matches)
SelectByEmailNoMatch(e) == NoRow

\* SELECT ... FROM users WHERE email = ?   (db.get: the first row, or none)
SelectByEmail(e) ==
    IF HasEmail(e)
    THEN CHOOSE u \in users :
            u.email = e /\ \A v \in users : v.email = e => u.id <= v.id
    ELSE NoRow

\* SELECT ... FROM users WHERE id = ?
SelectById(i) == IF HasId(i) THEN CHOOSE u \in users : u.id = i ELSE NoRow

\* the columns `cols` of row u, as the callback of db.get sees them
Select(u, cols) == [c \in Columns |-> IF c \in cols THEN u[c] ELSE NoRow[c]]

\* a users table whose email column is not UNIQUE
UniqueViolationNever(e) == FALSE

\* email TEXT UNIQUE: an INSERT of an email the table holds is refused
UniqueViolation(e) == HasEmail(e)

\* an id column without AUTOINCREMENT: one more than the largest id in the table
NewIdAfterLargest ==
    IF users = {} THEN 1
    ELSE (CHOOSE i \in {u.id : u \in users} : \A u \in users : u.id <= i) + 1

\* id INTEGER PRIMARY KEY AUTOINCREMENT: one more than every id ever given
NewId == nextId + 1

\* the UPDATE of approve without its WHERE clause
SetApprovedEveryRow(i) == {[u EXCEPT !.approved = 1] : u \in users}

\* UPDATE users SET approved = 1 WHERE id = ?
SetApproved(i) ==
    {IF u.id = i THEN [u EXCEPT !.approved = 1] ELSE u : u \in users}

\* DELETE FROM users WHERE id = ?
DeleteId(i) == {u \in users : u.id # i}

\* UPDATE users SET is_admin = ? WHERE id = ?
SetAdmin(i, v) ==
    {IF u.id = i THEN [u EXCEPT !.is_admin = v] ELSE u : u \in users}

\* UPDATE users SET password = ? WHERE id = ?
SetPassword(i, p) ==
    {IF u.id = i THEN [u EXCEPT !.password = p] ELSE u : u \in users}

\* GET /users/pending and GET /users/approved: the public columns of the rows
Public(u) == [id |-> u.id, name |-> u.name, email |-> u.email, cpf |-> u.cpf,
              is_admin |-> u.is_admin, approved |-> u.approved]
listPending == {Public(u) : u \in {v \in users : v.approved = 0}}
listApproved == {Public(u) : u \in {v \in users : v.approved = 1}}

\* -------------------------------------------------------------- requests
Body(k, n, e, p, c, appr, adm, i) ==
    [kind |-> k, name |-> n, email |-> e, password |-> p, cpf |-> c,
     approved |-> appr, is_admin |-> adm, id |-> i]

\* parseBody: resolves with null on an empty body, rejects on text that is
\* not JSON, resolves with the object otherwise
NullBody == Body("null", "", "", NoPassword, "", "undefined", "undefined", NoId)
BadBody == Body("bad", "", "", NoPassword, "", "undefined", "undefined", NoId)

\* what the handlers tell apart in a flag is 1 and '1' against the rest; a
\* client writes both flags the same way (numbers, booleans, or not at all)
FlagPairs ==
    {<<"undefined", "undefined">>, <<"'1'", "'1'">>}
    \cup ({"0", "1"} \X {"0", "1"})
    \cup ({"false", "true"} \X {"false", "true"})

LoginBodies ==
    {NullBody, BadBody,
     Body("json", "", "", adminPassword, "", "undefined", "undefined", NoId),
     Body("json", "", adminEmail, NoPassword, "", "undefined", "undefined", NoId)}
    \cup
    {Body("json", "", e, p, "", "undefined", "undefined", NoId) :
        e \in Emails, p \in LoginPasswords}

UsersBodies ==
    {NullBody, BadBody,
     Body("json", "", adminEmail, UserPassword, "", "undefined", "undefined", NoId),
     Body("json", "Ana", "", UserPassword, "", "undefined", "undefined", NoId),
     Body("json", "Ana", adminEmail, NoPassword, "", "undefined", "undefined", NoId),
     Body("json", "Ana", adminEmail, NumberPassword, "", "undefined", "undefined", NoId),
     Body("json", "Ana", "ana@gaj.com", UserPassword, "", "undefined", "undefined", NoId)}
    \cup
    {Body("json", n, e, UserPassword, c, f[1], f[2], NoId) :
        n \in Names, e \in Emails, c \in Cpfs, f \in FlagPairs}

IdBodies ==
    {NullBody, BadBody} \cup
    {Body("json", "", "", NoPassword, "", "undefined", "undefined", i) :
        i \in Ids \cup {NoId}}

NoRes == [status |-> 0, id |-> 0, name |-> "", email |-> "", is_admin |-> 0 - 1]
\* sendJSON(res, {error}, status)
Error(st) == [NoRes EXCEPT !.status = st]

IdleReq == [op |-> "none", pc |-> "idle", body |-> NullBody, row |-> NoRow,
            res |-> NoRes]

Done(o, b, rw, rs) == [op |-> o, pc |-> "done", body |-> b, row |-> rw, res |-> rs]
Wait(o, p, b, rw) == [op |-> o, pc |-> p, body |-> b, row |-> rw, res |-> NoRes]

\* a response is looked at, then the request's slot is free again
NoneDone == \A r \in Reqs : req[r].pc # "done"

\* The store runs the statements in the order they were handed to it, and the
\* bootstrap hands its first SELECT over while the module loads, before the
\* server listens: no handler's statement runs before that SELECT.
Serving == boot.pc # "check"

\* INSERTs still to come from handlers that passed their lookup
PendingInserts ==
    Cardinality({r \in Reqs : req[r].pc = "hash"})
    + (IF boot.pc = "insert" THEN 1 ELSE 0)
CanInsert == nextId + PendingInserts < MaxId


\* ------------------------------------------------------------------ Init
\* The database file outlives the process: it is new, or holds the default
\* admin as an earlier version stored it (password in plain text), or holds
\* the default admin as this version's bootstrap left it.
InitialUsers ==
    { {}, {AdminRow(1, adminPassword)}, {AdminRow(1, hashPassword(adminPassword))} }

Init ==
    /\ users \in InitialUsers
    /\ nextId = Cardinality(users)
    /\ boot = [pc |-> "check", id |-> 0, pwd |-> NoPassword]
    /\ req = [r \in Reqs |-> IdleReq]
    /\ removed = {}
    /\ public = {}

\* ------------------------------------------------------------- bootstrap
\* db.get('SELECT id FROM users WHERE email = ?', [adminEmail], ...)
BootCheck ==
    /\ boot.pc = "check"
    /\ NoneDone
    /\ \E err \in BOOLEAN :
         LET row == Select(SelectByEmail(adminEmail), {"id"}) IN
         /\ (~err /\ row = NoRow) => CanInsert
         /\ boot' = IF err THEN [boot EXCEPT !.pc = "done"]
                    ELSE IF row = NoRow THEN [boot EXCEPT !.pc = "insert"]
                    ELSE [boot EXCEPT !.pc = "recheck", !.id = row.id]
    /\ UNCHANGED <<users, nextId, req, removed, public, timeVars, schedVars,
                 clientVars, httpVars>>

\* hashPassword(adminPassword).then(hash => db.run('INSERT INTO users ...'))
BootInsert ==
    /\ boot.pc = "insert"
    /\ NoneDone
    /\ boot' = [boot EXCEPT !.pc = "done"]
    /\ \E err \in BOOLEAN :
         IF err \/ UniqueViolation(adminEmail)
         THEN UNCHANGED <<users, nextId>>
         ELSE /\ users' = users \cup {AdminRow(NewId, hashPassword(adminPassword))}
              /\ nextId' = NewId
    /\ UNCHANGED <<req, removed, public, timeVars, schedVars,
                 clientVars, httpVars>>

\* db.get('SELECT id, password FROM users WHERE id = ?', [row.id], ...)
BootRecheck ==
    /\ boot.pc = "recheck"
    /\ NoneDone
    /\ \E err2 \in BOOLEAN :
         LET existing == Select(SelectById(boot.id), {"id", "password"})
             pwd == IF existing # NoRow THEN existing.password ELSE NoPassword
         IN  boot' = IF ~err2 /\ pwd # NoPassword /\ ~startsWith2(pwd)
                     THEN [boot EXCEPT !.pc = "update", !.pwd = pwd]
                     ELSE [boot EXCEPT !.pc = "done"]
    /\ UNCHANGED <<users, nextId, req, removed, public, timeVars, schedVars,
                 clientVars, httpVars>>

\* hashPassword(pwd).then(hash => db.run('UPDATE users SET password = ? ...'))
BootUpdate ==
    /\ boot.pc = "update"
    /\ NoneDone
    /\ boot' = [boot EXCEPT !.pc = "done", !.pwd = NoPassword]
    /\ \E err3 \in BOOLEAN :
         users' = IF err3 THEN users ELSE SetPassword(boot.id, hashPassword(boot.pwd))
    /\ UNCHANGED <<nextId, req, removed, public, timeVars, schedVars,
                 clientVars, httpVars>>


\* ----------------------------------------------------------- POST /login
\* stored === provided, else bcrypt.compare; a failing compare counts as false
verifyPassword(stored, provided) ==
    \/ stored = provided
    \/ (~CompareFails(provided, stored) /\ checkPassword(provided, stored))

\* LoginUser made of every column the SELECT of /login reads
LoginUserWithPassword(row) ==
    [status |-> 200, id |-> row.id, name |-> row.name, email |-> row.email,
     password |-> row.password,
     is_admin |-> IF row.is_admin = 1 THEN 1 ELSE 0]

\* the user object of a successful login
LoginUser(row) ==
    [status |-> 200, id |-> row.id, name |-> row.name, email |-> row.email,
     is_admin |-> IF row.is_admin = 1 THEN 1 ELSE 0]

\* LoginAnswer without the test of row.approved
LoginAnswerNoApproval(row, password) ==
    IF row = NoRow THEN Error(404)
    ELSE IF ~verifyPassword(row.password, password) THEN Error(401)
    ELSE LoginUser(row)

\* LoginAnswer with the password verified before row.approved is tested
LoginAnswerPasswordFirst(row, password) ==
    IF row = NoRow THEN Error(404)
    ELSE IF ~verifyPassword(row.password, password) THEN Error(401)
    ELSE IF row.approved = 0 THEN Error(403)
    ELSE LoginUser(row)

\* the answer of the db.get callback of /login for the row it is given
LoginAnswer(row, password) ==
    IF row = NoRow THEN Error(404)
    ELSE IF row.approved = 0 THEN Error(403)
    ELSE IF ~verifyPassword(row.password, password) THEN Error(401)
    ELSE LoginUser(row)

Login(r) ==
    /\ req[r].pc = "idle"
    /\ Serving
    /\ NoneDone
    /\ \E body \in LoginBodies, err \in BOOLEAN :
         LET row == Select(SelectByEmail(body.email),
                           {"id", "name", "email", "password", "is_admin", "approved"})
         IN  req' = [req EXCEPT ![r] =
                IF body.kind # "json" \/ body.email = "" \/ body.password = NoPassword
                THEN Done("login", body, NoRow, Error(400))
                ELSE IF err THEN Done("login", body, NoRow, Error(500))
                ELSE Done("login", body, row, LoginAnswer(row, body.password))]
    /\ UNCHANGED <<users, nextId, boot, removed, public, timeVars, schedVars,
                 clientVars, httpVars>>

\* ----------------------------------------------------------- POST /users
approvedFlag(body) == FlagOf(body.approved)
adminFlag(body) == FlagOf(body.is_admin)

\* the body Register.handleSubmit sends: name, email, password, cpf only
IsPublic(body) == body.approved = "undefined" /\ body.is_admin = "undefined"

\* the row INSERT INTO users (name, email, password, cpf, approved, is_admin)
\* writes for a body
NewUser(i, body) ==
    Row(i, body.name, body.email, hashPassword(body.password), body.cpf,
        adminFlag(body), approvedFlag(body))

\* parseBody, the check of the fields, SELECT id ... WHERE email = ?, and
\* (when the email is free) the start of hashPassword
UsersLookup(r) ==
    /\ req[r].pc = "idle"
    /\ Serving
    /\ NoneDone
    /\ \E body \in UsersBodies, err \in BOOLEAN :
         LET row == Select(SelectByEmail(body.email), {"id"})
             bad == \/ body.kind # "json" \/ body.name = ""
                    \/ body.email = "" \/ body.password = NoPassword
             free == ~bad /\ ~err /\ row = NoRow
         IN  /\ (free /\ ~HashFails(body.password)) => CanInsert
             /\ req' = [req EXCEPT ![r] =
                  IF bad THEN Done("users", body, NoRow, Error(400))
                  ELSE IF err THEN Done("users", body, NoRow, Error(500))
                  ELSE IF row # NoRow THEN Done("users", body, row, Error(409))
                  ELSE IF HashFails(body.password)
                       THEN Done("users", body, NoRow, Error(500))
                  ELSE Wait("users", "hash", body, NoRow)]
    /\ UNCHANGED <<users, nextId, boot, removed, public, timeVars, schedVars,
                 clientVars, httpVars>>

\* the hash is ready: db.run('INSERT INTO users ...') and its callback
UsersInsert(r) ==
    /\ req[r].pc = "hash"
    /\ NoneDone
    /\ \E err2 \in BOOLEAN :
         LET body == req[r].body IN
         IF err2 \/ UniqueViolation(body.email)
         THEN /\ req' = [req EXCEPT ![r] = Done("users", body, NoRow, Error(500))]
              /\ UNCHANGED <<users, nextId, public>>
         ELSE /\ users' = users \cup {NewUser(NewId, body)}
              /\ nextId' = NewId
              /\ public' = IF IsPublic(body) THEN public \cup {NewId} ELSE public
              /\ req' = [req EXCEPT ![r] =
                    Done("users", body, NoRow,
                         [NoRes EXCEPT !.status = 201, !.id = NewId])]
    /\ UNCHANGED <<boot, removed, timeVars, schedVars,
                 clientVars, httpVars>>

\* ------------------------------------------------------ PUT /users/approve
Approve(r) ==
    /\ req[r].pc = "idle"
    /\ Serving
    /\ NoneDone
    /\ \E body \in IdBodies, err \in BOOLEAN :
         LET changes == Cardinality({u \in users : u.id = body.id}) IN
         IF body.kind # "json" \/ body.id = NoId
         THEN /\ req' = [req EXCEPT ![r] = Done("approve", body, NoRow, Error(400))]
              /\ users' = users
         ELSE IF err
         THEN /\ req' = [req EXCEPT ![r] = Done("approve", body, NoRow, Error(500))]
              /\ users' = users
         ELSE /\ users' = SetApproved(body.id)
              /\ req' = [req EXCEPT ![r] = Done("approve", body, NoRow,
                            IF changes = 0 THEN Error(404)
                            ELSE [NoRes EXCEPT !.status = 200])]
    /\ UNCHANGED <<nextId, boot, removed, public, timeVars, schedVars,
                 clientVars, httpVars>>

\* ---------------------------------------------------- DELETE /users/reject
Reject(r) ==
    /\ req[r].pc = "idle"
    /\ Serving
    /\ NoneDone
    /\ \E body \in IdBodies, err \in BOOLEAN :
         LET gone == {u \in users : u.id = body.id}
             changes == Cardinality(gone)
         IN
         IF body.kind # "json" \/ body.id = NoId
         THEN /\ req' = [req EXCEPT ![r] = Done("reject", body, NoRow, Error(400))]
              /\ UNCHANGED <<users, removed>>
         ELSE IF err
         THEN /\ req' = [req EXCEPT ![r] = Done("reject", body, NoRow, Error(500))]
              /\ UNCHANGED <<users, removed>>
         ELSE /\ users' = DeleteId(body.id)
              /\ removed' = removed \cup {[id |-> u.id, email |-> u.email] : u \in gone}
              /\ req' = [req EXCEPT ![r] = Done("reject", body, NoRow,
                            IF changes = 0 THEN Error(404)
                            ELSE [NoRes EXCEPT !.status = 200])]
    /\ UNCHANGED <<nextId, boot, public, timeVars, schedVars,
                 clientVars, httpVars>>

\* ------------------------------------------------------- PUT /users/admin
\* a toggle that only ever grants
newValGrant(row) == 1

\* const newVal = row.is_admin === 1 ? 0 : 1
newVal(row) == IF row.is_admin = 1 THEN 0 ELSE 1

\* parseBody and db.get('SELECT is_admin FROM users WHERE id = ?')
AdminLookup(r) ==
    /\ req[r].pc = "idle"
    /\ Serving
    /\ NoneDone
    /\ \E body \in IdBodies, err \in BOOLEAN :
         LET row == Select(SelectById(body.id), {"is_admin"}) IN
         req' = [req EXCEPT ![r] =
            IF body.kind # "json" \/ body.id = NoId
            THEN Done("admin", body, NoRow, Error(400))
            ELSE IF err THEN Done("admin", body, NoRow, Error(500))
            ELSE IF row = NoRow THEN Done("admin", body, NoRow, Error(404))
            ELSE Wait("admin", "update", body, row)]
    /\ UNCHANGED <<users, nextId, boot, removed, public, timeVars, schedVars,
                 clientVars, httpVars>>

\* db.run('UPDATE users SET is_admin = ? WHERE id = ?') and its callback
AdminUpdate(r) ==
    /\ req[r].pc = "update"
    /\ NoneDone
    /\ \E err2 \in BOOLEAN :
         LET body == req[r].body
             row == req[r].row
         IN
         IF err2
         THEN /\ req' = [req EXCEPT ![r] = Done("admin", body, row, Error(500))]
              /\ users' = users
         ELSE /\ users' = SetAdmin(body.id, newVal(row))
              /\ req' = [req EXCEPT ![r] = Done("admin", body, row,
                            [NoRes EXCEPT !.status = 200, !.id = body.id,
                                          !.is_admin = newVal(row)])]
    /\ UNCHANGED <<nextId, boot, removed, public, timeVars, schedVars,
                 clientVars, httpVars>>

\* --------------------------------- GET /users/pending, GET /users/approved
\* db.all('SELECT id, name, email, cpf, is_admin, approved FROM users WHERE
\* approved = ?'): sendJSON(res, {users: rows}, 200)
ListUsers(r) ==
    /\ req[r].pc = "idle"
    /\ Serving
    /\ NoneDone
    /\ \E which \in {"pending", "approved"}, err \in BOOLEAN :
         req' = [req EXCEPT ![r] =
            IF err THEN Done(which, NullBody, NoRow, Error(500))
            ELSE Done(which, NullBody, NoRow,
                      [status |-> 200,
                       users |-> IF which = "pending" THEN listPending
                                 ELSE listApproved])]
    /\ UNCHANGED <<users, nextId, boot, removed, public, timeVars, schedVars,
                 clientVars, httpVars>>

\* res.end(body): the response is out and the request is over
Finish(r) ==
    /\ req[r].pc = "done"
    /\ req' = [req EXCEPT ![r] = IdleReq]
    /\ UNCHANGED <<users, nextId, boot, removed, public, timeVars, schedVars,
                 clientVars, httpVars>>

Next ==
    \/ BootCheck
    \/ BootInsert
    \/ BootRecheck
    \/ BootUpdate
    \/ \E r \in Reqs : Login(r)
    \/ \E r \in Reqs : UsersLookup(r)
    \/ \E r \in Reqs : UsersInsert(r)
    \/ \E r \in Reqs : Approve(r)
    \/ \E r \in Reqs : Reject(r)
    \/ \E r \in Reqs : AdminLookup(r)
    \/ \E r \in Reqs : AdminUpdate(r)
    \/ \E r \in Reqs : ListUsers(r)
    \/ \E r \in Reqs : Finish(r)


\* ================================================== validateHour (server)
\* A JS value is its type and its text; a string is the sequence of its
\* characters.
MaxTimeLen == 5
Chars == {"0", "1", "2", "5", "6", "8", "9", ":", " ", "x"}

Value(ty, tx) == [type |-> ty, text |-> tx]
Str(s) == Value("string", s)
Undefined == Value("undefined", <<>>)
JSNull == Value("null", <<>>)
EmptyObject == Value("object", <<>>)
JSTrue == Value("boolean", <<"t", "r", "u", "e">>)
JSFalse == Value("boolean", <<"f", "a", "l", "s", "e">>)
Number(tx) == Value("number", tx)

\* typeof v
typeof(v) == IF v.type = "null" THEN "object" ELSE v.type

\* !!v
Truthy(v) ==
    CASE v.type = "string" -> v.text # <<>>
      [] v.type = "number" -> v.text # <<"0">>
      [] v.type = "boolean" -> v = JSTrue
      [] v.type = "object" -> TRUE
      [] OTHER -> FALSE

Digits == <<"0", "1", "2", "3", "4", "5", "6", "7", "8", "9">>
IsDigit(c) == \E i \in 1..10 : Digits[i] = c
DigitOf(c) == (CHOOSE i \in 1..10 : Digits[i] = c) - 1

\* parseInt(s, 10) of a string of digits
RECURSIVE parseInt(_)
parseInt(s) ==
    IF s = <<>> THEN 0
    ELSE parseInt(SubSeq(s, 1, Len(s) - 1)) * 10 + DigitOf(s[Len(s)])

\* s.match(/^([0-2]\d):([0-5]\d)$/): the match and its two groups, or null
NoMatch == <<>>
timeMatch(s) ==
    IF /\ Len(s) = 5
       /\ s[1] \in {"0", "1", "2"}
       /\ IsDigit(s[2])
       /\ s[3] = ":"
       /\ s[4] \in {"0", "1", "2", "3", "4", "5"}
       /\ IsDigit(s[5])
    THEN <<s, SubSeq(s, 1, 2), SubSeq(s, 4, 5)>>
    ELSE NoMatch

\* validateHour with the end of the window left out
validateHourEndExcluded(t) ==
    IF typeof(t) # "string" THEN "false"
    ELSE LET match == timeMatch(t.text) IN
         IF match = NoMatch THEN "false"
         ELSE LET minutes == parseInt(match[2]) * 60 + parseInt(match[3])
              IN  IF minutes >= 6 * 60 /\ minutes < 18 * 60
                  THEN "true" ELSE "false"

\* validateHour without the test of typeof time: match is called on the value
validateHourNoTypeof(t) ==
    IF t.type \in {"null", "undefined"} THEN "TypeError"
    ELSE IF typeof(t) # "string" THEN "TypeError"
    ELSE LET match == timeMatch(t.text) IN
         IF match = NoMatch THEN "false"
         ELSE LET minutes == parseInt(match[2]) * 60 + parseInt(match[3])
              IN  IF minutes >= 6 * 60 /\ minutes <= 18 * 60
                  THEN "true" ELSE "false"

\* validateHour(time): what the call comes to, "true" or "false" returned
\* ("TypeError" would be an exception thrown)
validateHour(t) ==
    IF typeof(t) # "string" THEN "false"
    ELSE LET match == timeMatch(t.text) IN
         IF match = NoMatch THEN "false"
         ELSE LET hh == parseInt(match[2])
                  mm == parseInt(match[3])
                  minutes == hh * 60 + mm
                  start == 6 * 60
                  end == 18 * 60
              IN  IF minutes >= start /\ minutes <= end
                  THEN "true" ELSE "false"

\* the strings of at most MaxTimeLen characters, and values that are no strings
\* and a time in the window with one character before or after it
TimeStrings ==
    UNION {[1..n -> Chars] : n \in 0..MaxTimeLen}
    \cup {<<c>> \o <<"0", "6", ":", "0", "0">> : c \in Chars}
    \cup {<<"1", "8", ":", "0", "0">> \o <<c>> : c \in Chars}
NonStrings ==
    {Undefined, JSNull, EmptyObject, JSTrue, JSFalse,
     Number(<<"9", "3", "0">>), Number(<<"0">>)}
TimeInputs == {Str(s) : s \in TimeStrings} \cup NonStrings

\* ======================================================== /schedules
MaxSched == 2
SchedIds == 1..MaxSched

\* validateHour of Agendamento.jsx, the form that sends POST /schedules:
\* time.match(/^([0-2]?\d):([0-5]\d)$/)
timeMatchAgendamento(s) ==
    IF timeMatch(s) # NoMatch THEN timeMatch(s)
    ELSE IF /\ Len(s) = 4
            /\ IsDigit(s[1])
            /\ s[2] = ":"
            /\ s[3] \in {"0", "1", "2", "3", "4", "5"}
            /\ IsDigit(s[4])
         THEN <<s, SubSeq(s, 1, 1), SubSeq(s, 3, 4)>>
         ELSE NoMatch

validateHourAgendamento(t) ==
    IF typeof(t) # "string" THEN "false"
    ELSE LET m == timeMatchAgendamento(t.text) IN
         IF m = NoMatch THEN "false"
         ELSE LET hh == parseInt(m[2])
                  mm == parseInt(m[3])
                  minutes == hh * 60 + mm
                  start == 6 * 60
                  end == 18 * 60
              IN  IF minutes >= start /\ minutes <= end
                  THEN "true" ELSE "false"

\* --------------------------------------------------------- request bodies
Empty == Str(<<>>)
Lawyer == Str(<<"A", "n", "a">>)
Client == Str(<<"B", "e", "n">>)
Process == Str(<<"1", "2", "3">>)
Notes == Str(<<"r", "o", "o", "m", " ", "2">>)
Dates == {Str(<<"2", "0", "2", "5", "-", "1", "0", "-", "2", "8">>),
          Str(<<"2", "0", "2", "5", "-", "1", "0", "-", "2", "9">>)}
\* a date written without dashes: create takes any date that is not empty
DigitsDate == Str(<<"2", "0", "2", "5", "1", "0", "2", "8">>)
SixOClock == Str(<<"0", "6", ":", "0", "0">>)
EighteenOClock == Str(<<"1", "8", ":", "0", "0">>)
NineThirty == Str(<<"9", ":", "3", "0">>)
InWindow == {SixOClock, EighteenOClock}
OffWindow ==
    {Str(<<"0", "5", ":", "5", "9">>), Str(<<"1", "8", ":", "0", "1">>),
     NineThirty, Number(<<"9", "3", "0">>)}
Onlines == {Undefined, JSTrue, JSFalse, Number(<<"1">>), Number(<<"0">>)}

SBody(k, l, c, p, o, d, t, n) ==
    [kind |-> k, lawyer |-> l, client |-> c, process_number |-> p,
     online |-> o, date |-> d, time |-> t, notes |-> n]

\* parseBody resolved with null, and parseBody rejected
NullSBody ==
    SBody("null", Undefined, Undefined, Undefined, Undefined, Undefined,
          Undefined, Undefined)
BadSBody ==
    SBody("bad", Undefined, Undefined, Undefined, Undefined, Undefined,
          Undefined, Undefined)

\* process_number and notes: left out, empty, or filled in
Optionals == {<<Undefined, Undefined>>, <<Empty, Empty>>, <<Process, Notes>>}

CreateBodies ==
    {NullSBody, BadSBody}
    \cup {SBody("json", Lawyer, Client, x[1], o, d, t, x[2]) :
            x \in Optionals, o \in Onlines, d \in Dates, t \in InWindow}
    \cup {SBody("json", Lawyer, Client, Process, JSTrue, d, t, Notes) :
            d \in Dates, t \in OffWindow}
    \cup {SBody("json", Lawyer, Client, Process, JSTrue, DigitsDate, SixOClock,
                Notes)}
    \cup {SBody("json", l, c, Process, JSTrue, d, t, Notes) :
            l \in {Lawyer, Empty}, c \in {Client, Undefined},
            d \in Dates \cup {Undefined},
            t \in {SixOClock, NineThirty, Empty, Undefined}}

\* the patch of PUT /schedules/:id: online alone, or with other fields beside
UpdateBodies ==
    {NullSBody, BadSBody}
    \cup {SBody("json", Undefined, Undefined, Undefined, o, Undefined,
                Undefined, Undefined) : o \in Onlines}
    \cup {SBody("json", Client, Lawyer, Empty, o, d,
                Str(<<"0", "5", ":", "5", "9">>), Empty) :
            o \in Onlines, d \in Dates}

\* ------------------------------------------------------- table schedules
SRow(i, l, c, p, o, d, t, n) ==
    [id |-> i, lawyer |-> l, client |-> c, process_number |-> p,
     online |-> o, date |-> d, time |-> t, notes |-> n]
NoSchedule ==
    SRow(0, Undefined, Undefined, Undefined, 0 - 1, Undefined, Undefined,
         Undefined)

HasSchedule(i) == \E x \in schedules : x.id = i
\* SELECT * FROM schedules WHERE id = ?
ScheduleById(i) ==
    IF HasSchedule(i) THEN CHOOSE x \in schedules : x.id = i ELSE NoSchedule
\* SELECT * FROM schedules WHERE date = ?
SchedulesByDate(d) == {x \in schedules : x.date = d}

\* v || ''
OrEmpty(v) == IF Truthy(v) THEN v ELSE Empty
\* v ? 1 : 0
OneOrZero(v) == IF Truthy(v) THEN 1 ELSE 0

\* NewSchedule with the notes column left at its default
NewScheduleWithoutNotes(i, body) ==
    SRow(i, body.lawyer, body.client, OrEmpty(body.process_number),
         OneOrZero(body.online), body.date, body.time, Empty)

\* the row INSERT INTO schedules (lawyer, client, process_number, online,
\* date, time, notes) writes for a body
NewSchedule(i, body) ==
    SRow(i, body.lawyer, body.client, OrEmpty(body.process_number),
         OneOrZero(body.online), body.date, body.time, OrEmpty(body.notes))

\* SetOnline without the WHERE
SetOnlineEveryRow(i, v) == {[x EXCEPT !.online = v] : x \in schedules}

\* UPDATE schedules SET online = ? WHERE id = ?
SetOnline(i, v) ==
    {IF x.id = i THEN [x EXCEPT !.online = v] ELSE x : x \in schedules}

\* DeleteSchedule with id <= ? for its WHERE
DeleteScheduleUpTo(i) == {x \in schedules : x.id > i}

\* DELETE FROM schedules WHERE id = ?
DeleteSchedule(i) == {x \in schedules : x.id # i}

\* ------------------------------------------------------------- responses
NoSRes ==
    [status |-> 0, error |-> "", id |-> 0, online |-> 0 - 1,
     schedule |-> NoSchedule, schedules |-> {}]
\* sendJSON(res, {error}, status)
SError(st, e) == [NoSRes EXCEPT !.status = st, !.error = e]

\* no id in the path
NoParam == 0
SReq(o, i, d, b, rs) == [op |-> o, id |-> i, date |-> d, body |-> b, res |-> rs]
NoSReq == SReq("none", NoParam, Undefined, NullSBody, NoSRes)

\* ---------------------------------------------------------- POST /schedules
\* same lawyer, date and time as a row of the table
Overlaps(body) ==
    \E x \in schedules :
        x.lawyer = body.lawyer /\ x.date = body.date /\ x.time = body.time

\* CreateError without the call of validateHour
CreateErrorNoWindow(body) ==
    IF body.kind = "bad" THEN "json"
    ELSE IF body.kind = "null" THEN "body"
    ELSE IF \/ ~Truthy(body.lawyer) \/ ~Truthy(body.client)
            \/ ~Truthy(body.date) \/ ~Truthy(body.time) THEN "fields"
    ELSE ""

\* CreateError with validateHour called before the fields are looked at
CreateErrorWindowFirst(body) ==
    IF body.kind = "bad" THEN "json"
    ELSE IF body.kind = "null" THEN "body"
    ELSE IF validateHour(body.time) # "true" THEN "window"
    ELSE IF \/ ~Truthy(body.lawyer) \/ ~Truthy(body.client)
            \/ ~Truthy(body.date) \/ ~Truthy(body.time) THEN "fields"
    ELSE ""

\* CreateError with a slot that is taken turned down
CreateErrorOnOverlap(body) ==
    IF body.kind = "bad" THEN "json"
    ELSE IF body.kind = "null" THEN "body"
    ELSE IF \/ ~Truthy(body.lawyer) \/ ~Truthy(body.client)
            \/ ~Truthy(body.date) \/ ~Truthy(body.time) THEN "fields"
    ELSE IF validateHour(body.time) # "true" THEN "window"
    ELSE IF Overlaps(body) THEN "taken"
    ELSE ""

\* which 400 the handler answers before it writes, "" when none:
\* JSON inválido, Body requerido, Campos obrigatórios ausentes, Horário
\* inválido
CreateError(body) ==
    IF body.kind = "bad" THEN "json"
    ELSE IF body.kind = "null" THEN "body"
    ELSE IF \/ ~Truthy(body.lawyer) \/ ~Truthy(body.client)
            \/ ~Truthy(body.date) \/ ~Truthy(body.time) THEN "fields"
    ELSE IF validateHour(body.time) # "true" THEN "window"
    ELSE ""

\* a response is looked at, then the next request is answered
SchedIdle == sreq = NoSReq

NoCreated == [id |-> 0, body |-> NullSBody]

SchedCreate ==
    /\ SchedIdle
    /\ \E body \in CreateBodies, err \in BOOLEAN :
         LET e == CreateError(body)
             lastID == schedSeq + 1
         IN  IF e # "" \/ err
             THEN /\ sreq' = SReq("create", NoParam, Undefined, body,
                                  IF e # "" THEN SError(400, e)
                                  ELSE SError(500, "internal"))
                  /\ UNCHANGED <<schedules, schedSeq, created>>
             ELSE /\ schedSeq < MaxSched
                  /\ schedules' = schedules \cup {NewSchedule(lastID, body)}
                  /\ schedSeq' = lastID
                  /\ sreq' = SReq("create", NoParam, Undefined, body,
                                  [NoSRes EXCEPT !.status = 201, !.id = lastID])
                  /\ created' = [id |-> lastID, body |-> body]
    /\ UNCHANGED <<userVars, timeVars,
                 clientVars, httpVars>>

\* ------------------------------------- GET /schedules, GET /schedules/:param
SchedList ==
    /\ SchedIdle
    /\ \E err \in BOOLEAN :
         sreq' = SReq("list", NoParam, Undefined, NullSBody,
                      IF err THEN SError(500, "internal")
                      ELSE [NoSRes EXCEPT !.status = 200, !.schedules = schedules])
    /\ UNCHANGED <<schedules, schedSeq, created, userVars, timeVars,
                 clientVars, httpVars>>

\* /^\d+$/.test(param)
IsDigits(s) == s # <<>> /\ \A k \in 1..Len(s) : IsDigit(s[k])

\* the text of an id in a path
IdParam(i) == Str(<<Digits[i + 1]>>)

\* parts[1] of GET /schedules/...: the text of an id, or a date
GetParams == {IdParam(i) : i \in SchedIds} \cup Dates \cup {DigitsDate}

\* a param of digits is an id, any other a date; the param is kept in date
SchedGet ==
    /\ SchedIdle
    /\ \/ sreq' = SReq("get", NoParam, Undefined, NullSBody, SError(400, "param"))
       \/ \E param \in GetParams, err \in BOOLEAN :
            IF IsDigits(param.text)
            THEN LET id == parseInt(param.text)
                     row == ScheduleById(id)
                 IN  sreq' = SReq("get", id, param, NullSBody,
                           IF err THEN SError(500, "internal")
                           ELSE IF row = NoSchedule THEN SError(404, "none")
                           ELSE [NoSRes EXCEPT !.status = 200, !.schedule = row])
            ELSE sreq' = SReq("date", NoParam, param, NullSBody,
                           IF err THEN SError(500, "internal")
                           ELSE [NoSRes EXCEPT !.status = 200,
                                     !.schedules = SchedulesByDate(param)])
    /\ UNCHANGED <<schedules, schedSeq, created, userVars, timeVars,
                 clientVars, httpVars>>

\* ------------------------------------------------- DELETE /schedules/:id
SchedDelete ==
    /\ SchedIdle
    /\ \E id \in SchedIds \cup {NoParam}, err \in BOOLEAN :
         IF id = NoParam \/ err \/ ~HasSchedule(id)
         THEN /\ sreq' = SReq("delete", id, Undefined, NullSBody,
                              IF id = NoParam THEN SError(400, "id")
                              ELSE IF err THEN SError(500, "internal")
                              ELSE SError(404, "none"))
              /\ UNCHANGED <<schedules, created>>
         ELSE /\ schedules' = DeleteSchedule(id)
              /\ created' = IF created.id = id THEN NoCreated ELSE created
              /\ sreq' = SReq("delete", id, Undefined, NullSBody,
                              [NoSRes EXCEPT !.status = 200])
    /\ UNCHANGED <<schedSeq, userVars, timeVars,
                 clientVars, httpVars>>

\* ---------------------------------------------------- PUT /schedules/:id
NoOnline == 0 - 1
\* typeof body.online !== 'undefined' ? (body.online ? 1 : 0) : null
onlineOf(body) ==
    IF typeof(body.online) # "undefined" THEN OneOrZero(body.online)
    ELSE NoOnline

\* which 400 the handler answers before it writes, "" when none
UpdateError(id, body) ==
    IF id = NoParam THEN "id"
    ELSE IF body.kind = "bad" THEN "json"
    ELSE IF body.kind = "null" THEN "body"
    ELSE IF onlineOf(body) = NoOnline THEN "online"
    ELSE ""

SchedUpdate ==
    /\ SchedIdle
    /\ \E id \in SchedIds \cup {NoParam}, body \in UpdateBodies, err \in BOOLEAN :
         LET e == UpdateError(id, body)
             online == onlineOf(body)
         IN  IF e # "" \/ err \/ ~HasSchedule(id)
             THEN /\ sreq' = SReq("update", id, Undefined, body,
                                  IF e # "" THEN SError(400, e)
                                  ELSE IF err THEN SError(500, "internal")
                                  ELSE SError(404, "none"))
                  /\ UNCHANGED <<schedules, created>>
             ELSE /\ schedules' = SetOnline(id, online)
                  /\ sreq' = SReq("update", id, Undefined, body,
                                  [NoSRes EXCEPT !.status = 200, !.id = id,
                                                 !.online = online])
                  /\ created' = IF created.id = id THEN NoCreated ELSE created
    /\ UNCHANGED <<schedSeq, userVars, timeVars,
                 clientVars, httpVars>>

\* res.end(body): the response is out
SchedFinish ==
    /\ ~SchedIdle
    /\ sreq' = NoSReq
    /\ UNCHANGED <<schedules, schedSeq, created, userVars, timeVars,
                 clientVars, httpVars>>

SchedNext ==
    \/ SchedFinish
    \/ SchedCreate
    \/ SchedList
    \/ SchedGet
    \/ SchedDelete
    \/ SchedUpdate

\* ================================================== Home.jsx: the calendar
\* how many years away from today the calendar is followed
MaxYearsAway == 2
\* the days the page is opened on: February of a leap year, October of the
\* year the stored schedules are in, January of a century year that has no
\* leap day
Todays == {<<2024, 1>>, <<2025, 9>>, <<2100, 0>>}

\* -------- Date of the JS runtime, in local time: a time value is the number
\* of its day, day 0 being 1 January 1970 (ECMAScript, Day Number and Year
\* Number)
DaysInYear(y) ==
    IF y % 4 # 0 THEN 365
    ELSE IF y % 100 # 0 THEN 366
    ELSE IF y % 400 # 0 THEN 365
    ELSE 366
DayFromYear(y) ==
    365 * (y - 1970) + ((y - 1969) \div 4) - ((y - 1901) \div 100)
        + ((y - 1601) \div 400)
InLeapYear(y) == IF DaysInYear(y) = 366 THEN 1 ELSE 0
\* the day of its year on which month m begins (month 12: the year's end)
MonthStart(m, leap) ==
    <<0, 31, 59 + leap, 90 + leap, 120 + leap, 151 + leap, 181 + leap,
      212 + leap, 243 + leap, 273 + leap, 304 + leap, 334 + leap,
      365 + leap>>[m + 1]

\* new Date(year, month, date): MakeDay, where a month of 12 is January of
\* the next year and a date of 0 is the last day of the month before
NewDate(year, month, date) ==
    LET ym == year + (month \div 12)
        mn == month % 12
    IN  DayFromYear(ym) + MonthStart(mn, InLeapYear(ym)) + date - 1

\* YearFromTime: the year whose first day is the last one not after d; a
\* year has 365 or 366 days, which leaves two candidates
getFullYear(d) ==
    CHOOSE y \in (1970 + (d \div 366))..(1970 + (d \div 365)) :
        DayFromYear(y) <= d /\ d < DayFromYear(y + 1)
DayWithinYear(d) == d - DayFromYear(getFullYear(d))
\* MonthFromTime
getMonth(d) ==
    LET y == getFullYear(d)
        leap == InLeapYear(y)
        day == d - DayFromYear(y)
    IN  CHOOSE m \in 0..11 : /\ MonthStart(m, leap) <= day
                             /\ day < MonthStart(m + 1, leap)
\* DateFromTime
getDate(d) ==
    LET y == getFullYear(d)
        m == getMonth(d)
    IN  d - DayFromYear(y) - MonthStart(m, InLeapYear(y)) + 1

\* a week that begins on Monday
getDayFromMonday(d) == (d + 3) % 7

\* Date.prototype.getDay: 0 is Sunday; 1 January 1970 was a Thursday
getDay(d) == (d + 4) % 7

\* String(n) of a whole number that is not negative
RECURSIVE NumberToString(_)
NumberToString(n) ==
    IF n < 10 THEN <<Digits[n + 1]>>
    ELSE NumberToString(n \div 10) \o <<Digits[(n % 10) + 1]>>

\* function pad(n) { return n < 10 ? '0' + n : String(n); }
pad(n) == IF n < 10 THEN <<"0">> \o NumberToString(n) ELSE NumberToString(n)

\* `${d.getFullYear()}-${pad(d.getMonth() + 1)}-${pad(d.getDate())}`
formatDateYYYYMMDD(d) ==
    Str(NumberToString(getFullYear(d)) \o <<"-">> \o pad(getMonth(d) + 1)
        \o <<"-">> \o pad(getDate(d)))

\* -------- the rows GET /schedules has answered with, as far as the calendar
\* reads them
HomeRow(i, d) == [id |-> i, date |-> d]
LeapDay == Str(<<"2", "0", "2", "4", "-", "0", "2", "-", "2", "9">>)
\* a date stored without the zeros: create takes any date that is not empty
UnpaddedDate == Str(<<"2", "0", "2", "4", "-", "2", "-", "9">>)
Loads ==
    { {HomeRow(1, UnpaddedDate)},
      {HomeRow(1, LeapDay), HomeRow(2, UnpaddedDate)},
      {HomeRow(1, LeapDay), HomeRow(2, LeapDay)}
         \cup {HomeRow(3, d) : d \in Dates} }

\* -------- the grid (Home.jsx 55-75)
startDayIndex == getDay(NewDate(displayYear, displayMonth, 1))
daysInMonth == getDate(NewDate(displayYear, displayMonth + 1, 0))
totalCells == startDayIndex + daysInMonth
\* Math.ceil(totalCells / 7)
weeks == (totalCells + 6) \div 7
cells == weeks * 7

\* the cell of an index outside the month: null
NullCell == [dayNumber |-> 0, dateStr |-> JSNull, hasEvents |-> FALSE]

\* a grid that marks every day of the month
calendarCellsAllMarked ==
    LET first == startDayIndex
        last == daysInMonth
    IN  [idx \in 0..(((first + last + 6) \div 7) * 7 - 1) |->
            LET dayNumber == idx - first + 1 IN
            IF dayNumber < 1 \/ dayNumber > last THEN NullCell
            ELSE [dayNumber |-> dayNumber,
                  dateStr |-> formatDateYYYYMMDD(
                                  NewDate(displayYear, displayMonth, dayNumber)),
                  hasEvents |-> TRUE]]

\* Array.from({ length: cells }).map((_, idx) => ...)
calendarCells ==
    LET first == startDayIndex
        last == daysInMonth
    IN  [idx \in 0..(cells - 1) |->
            LET dayNumber == idx - first + 1
                dateStr == formatDateYYYYMMDD(
                               NewDate(displayYear, displayMonth, dayNumber))
            IN  IF dayNumber < 1 \/ dayNumber > last THEN NullCell
                ELSE [dayNumber |-> dayNumber,
                      dateStr |-> dateStr,
                      hasEvents |-> \E s \in homeSchedules : s.date = dateStr]]

\* -------- the steps of the page
\* the days of a month that are clicked on
ClickDays == {1, 9, 29}

\* React calls an updater once; under <React.StrictMode> a development build
\* calls it a second time when it runs during a render, and every call of
\* the updater of the month calls setDisplayYear
StrictModeRuns == {1, 2}

InView(y) == y - todayYear <= MaxYearsAway /\ todayYear - y <= MaxYearsAway

\* fetch('/schedules') has answered: setSchedules(data.schedules)
LoadSchedules ==
    /\ homeSchedules = {}
    /\ homeSchedules' \in Loads
    /\ UNCHANGED <<todayYear, todayMonth, displayYear, displayMonth,
                   selectedDate, sessionVars, httpVars, userVars, timeVars,
                   schedVars>>

\* onClick of a cell of the month: setSelectedDate(cell.dateStr)
SelectDay ==
    /\ LET grid == calendarCells IN
       \E idx \in DOMAIN grid :
         /\ grid[idx] # NullCell
         /\ grid[idx].dayNumber \in ClickDays
         /\ selectedDate' = grid[idx].dateStr
    /\ UNCHANGED <<todayYear, todayMonth, displayYear, displayMonth,
                   homeSchedules, sessionVars, httpVars, userVars, timeVars,
                   schedVars>>

\* setSelectedDate(null); setDisplayMonth((m) => { if (m === 0) {
\* setDisplayYear((y) => y - 1); return 11; } return m - 1; })
gotoPrevMonth ==
    /\ selectedDate' = JSNull
    /\ displayMonth' = IF displayMonth = 0 THEN 11 ELSE displayMonth - 1
    /\ \E runs \in StrictModeRuns :
         displayYear' = IF displayMonth = 0 THEN displayYear - runs
                        ELSE displayYear
    /\ InView(displayYear')
    /\ UNCHANGED <<todayYear, todayMonth, homeSchedules, sessionVars,
                   httpVars, userVars, timeVars, schedVars>>

\* setSelectedDate(null); setDisplayMonth((m) => { if (m === 11) {
\* setDisplayYear((y) => y + 1); return 0; } return m + 1; })
gotoNextMonth ==
    /\ selectedDate' = JSNull
    /\ displayMonth' = IF displayMonth = 11 THEN 0 ELSE displayMonth + 1
    /\ \E runs \in StrictModeRuns :
         displayYear' = IF displayMonth = 11 THEN displayYear + runs
                        ELSE displayYear
    /\ InView(displayYear')
    /\ UNCHANGED <<todayYear, todayMonth, homeSchedules, sessionVars,
                   httpVars, userVars, timeVars, schedVars>>

\* setDisplayYear(todayYear); setDisplayMonth(todayMonth);
\* setSelectedDate(null)
gotoToday ==
    /\ displayYear' = todayYear
    /\ displayMonth' = todayMonth
    /\ selectedDate' = JSNull
    /\ UNCHANGED <<todayYear, todayMonth, homeSchedules, sessionVars,
                   httpVars, userVars, timeVars, schedVars>>

CalNext ==
    \/ LoadSchedules
    \/ SelectDay
    \/ gotoPrevMonth
    \/ gotoNextMonth
    \/ gotoToday

\* ================================== Login.jsx, Navbar.jsx: the client session
\* localStorage.getItem of a key that is not stored: null
Absent == JSNull

\* the user objects POST /login answers 200 with: LoginUser of a row
SessionUsers ==
    {[id |-> 1, name |-> "Admin", email |-> adminEmail, is_admin |-> 1],
     [id |-> 2, name |-> "Ana", email |-> "ana@gaj.com", is_admin |-> 0],
     [id |-> 2, name |-> "Ana", email |-> "ana@gaj.com", is_admin |-> 1]}
NoUser == [id |-> 0, name |-> "", email |-> "", is_admin |-> 0]

\* what fetch and res.json() hand to handleSubmit: fetch rejects (no
\* connection), or a status with the parsed body, {} when the body is no JSON
NoFetch == [status |-> 0, success |-> FALSE, user |-> NoUser]
NetworkError == [status |-> 0 - 1, success |-> FALSE, user |-> NoUser]
Failure(st) == [status |-> st, success |-> FALSE, user |-> NoUser]
Success(u) == [status |-> 200, success |-> TRUE, user |-> u]
LoginResponses ==
    {NetworkError, Failure(200)}
    \cup {Failure(st) : st \in {400, 401, 403, 404, 500}}
    \cup {Success(u) : u \in SessionUsers}

\* res.ok
ok(response) == response.status >= 200 /\ response.status <= 299

\* JSON.stringify(data.user): the text of the object, member by member
JSONstringify(u) ==
    Str(<<"{", "id", NumberToString(u.id), "name", u.name,
          "email", u.email, "is_admin", NumberToString(u.is_admin), "}">>)

\* String(data.user.is_admin) of the number 0 or 1
String(n) == Str(NumberToString(n))

NoSession == [user |-> Absent, is_admin |-> Absent]

\* localStorage.getItem('is_admin') === '1' || ... === 'true'  (App.jsx
\* renders <Navbar /> without the prop)
isAdmin ==
    \/ localStorage.is_admin = Str(<<"1">>)
    \/ localStorage.is_admin = Str(<<"t", "r", "u", "e">>)

Paths == {"/", "/home"}
\* the routes of MainLayout render the Navbar
NavbarShown == path # "/"
AdminLinkShown == NavbarShown /\ isAdmin

\* what handleSubmit stores whatever the response is
StoredAlways(response, throwsAt) ==
    [user |-> JSONstringify(response.user),
     is_admin |-> String(response.user.is_admin)]

\* the try block of handleSubmit: setItem('user', ...), setItem('is_admin',
\* ...); a setItem that throws ends the block
Stored(response, throwsAt) ==
    IF ~(ok(response) /\ response.success) \/ throwsAt = 1 THEN localStorage
    ELSE IF throwsAt = 2
    THEN [localStorage EXCEPT !.user = JSONstringify(response.user)]
    ELSE [user |-> JSONstringify(response.user),
          is_admin |-> String(response.user.is_admin)]

\* handleSubmit of the login form
handleSubmit ==
    /\ path = "/"
    /\ \E response \in LoginResponses, throwsAt \in {0, 1, 2} :
         /\ fetched' = response
         /\ localStorage' = Stored(response, throwsAt)
         /\ path' = IF ok(response) /\ response.success THEN "/home" ELSE path
    /\ UNCHANGED <<calVars, httpVars, userVars, timeVars, schedVars>>

\* handleLogout: localStorage.clear() in a try block, then navigate('/')
handleLogout ==
    /\ NavbarShown
    /\ \E throws \in BOOLEAN :
         localStorage' = IF throws THEN localStorage ELSE NoSession
    /\ path' = "/"
    /\ fetched' = NoFetch
    /\ UNCHANGED <<calVars, httpVars, userVars, timeVars, schedVars>>

\* the address bar: no route asks for a session
Visit ==
    /\ \E p \in Paths : p # path /\ path' = p
    /\ fetched' = NoFetch
    /\ UNCHANGED <<localStorage, calVars, httpVars, userVars, timeVars,
                   schedVars>>

SessionNext ==
    \/ handleSubmit
    \/ handleLogout
    \/ Visit

\* ======================================= server.js: one request, one response
\* body.length > 1e6, counted in chunks of the body: a body of more chunks
\* than BodyLimit is too large
BodyLimit == 2

\* the routes of the request handler; "unknown" is every other method and path
BodyRoutes ==
    {"POST /login", "PUT /users/approve", "DELETE /users/reject",
     "PUT /users/admin", "POST /users", "POST /schedules", "PUT /schedules/:id"}
StoreRoutes ==
    {"GET /users/pending", "GET /users/approved", "GET /schedules",
     "GET /schedules/:id", "GET /schedules/:date", "DELETE /schedules/:id"}
PlainRoutes == {"OPTIONS", "GET /", "GET /info", "unknown"}
Routes == BodyRoutes \cup StoreRoutes \cup PlainRoutes

\* what a handler waits for, in turn, once the body is read: a statement of
\* the store (get, all, run), bcrypt (hash, compare), fs.readFile
Stages(route) ==
    CASE route = "POST /login" -> <<"get", "compare">>
      [] route = "PUT /users/approve" -> <<"run">>
      [] route = "DELETE /users/reject" -> <<"run">>
      [] route = "PUT /users/admin" -> <<"get", "run">>
      [] route = "POST /users" -> <<"get", "hash", "run">>
      [] route = "POST /schedules" -> <<"run">>
      [] route = "PUT /schedules/:id" -> <<"run">>
      [] route = "GET /users/pending" -> <<"all">>
      [] route = "GET /users/approved" -> <<"all">>
      [] route = "GET /schedules" -> <<"all">>
      [] route = "GET /schedules/:id" -> <<"get">>
      [] route = "GET /schedules/:date" -> <<"all">>
      [] route = "DELETE /schedules/:id" -> <<"run">>
      [] route = "GET /info" -> <<"readFile">>
      [] OTHER -> <<>>

\* the status of the answer given without waiting for anything
Immediate(route) ==
    CASE route = "OPTIONS" -> 204
      [] route = "GET /" -> 200
      [] OTHER -> 404

\* the status of the last answer of a handler
SuccessStatus(route) ==
    IF route \in {"POST /users", "POST /schedules"} THEN 201 ELSE 200

\* how a stage can come out: "ok" goes on, everything else is answered
Outcomes(route, stage) ==
    CASE stage = "get" -> {"ok", "err", "no row"}
                          \cup (IF route = "POST /login" THEN {"pending"} ELSE {})
      [] stage = "run" -> {"ok", "err"}
                          \cup (IF route \in {"POST /users", "POST /schedules",
                                              "PUT /users/admin"}
                                THEN {} ELSE {"no row"})
      [] stage = "all" -> {"ok", "err"}
      [] stage = "hash" -> {"ok", "err"}
      [] stage = "compare" -> {"ok", "no match"}
      [] OTHER -> {"ok"}

\* the status a stage that did not come out "ok" is answered with; for POST
\* /users the row the lookup finds is the duplicate, and "ok" is its absence
StatusOf(route, stage, outcome) ==
    CASE outcome = "err" -> 500
      [] outcome = "pending" -> 403
      [] outcome = "no match" -> 401
      [] outcome = "no row" /\ route = "POST /users" -> 409
      [] OTHER -> 404

\* the body of the request: nothing, text that is no JSON, JSON without the
\* fields the handler asks for, JSON with them; and how many chunks it has
BodyKinds == {"empty", "bad", "invalid", "ok"}
Sizes(kind) == IF kind = "empty" THEN {0} ELSE 1..(BodyLimit + 1)

NoHReq == [route |-> "none", kind |-> "empty", size |-> 0, length |-> 0,
           pc |-> "idle", stage |-> 0, status |-> 0]

\* sendJSON: res.writeHead(status); res.end(body). What is written to a
\* socket that was destroyed reaches nobody.
sendJSON(sock, h, status) ==
    /\ hreq' = [h EXCEPT !.pc = "answered", !.status = status]
    /\ delivered' = IF sock = "open" THEN delivered + 1 ELSE delivered

\* the handler is called: routing, and the answers that wait for nothing
HttpRequest ==
    /\ hreq.pc = "idle"
    /\ \E route \in Routes, kind \in BodyKinds :
       \E size \in Sizes(kind) :
         LET h == [NoHReq EXCEPT !.route = route, !.kind = kind, !.size = size]
         IN  IF route \in BodyRoutes
             THEN /\ hreq' = [h EXCEPT !.pc = "body"]
                  /\ UNCHANGED delivered
             ELSE IF Stages(route) # <<>>
             THEN /\ kind = "empty"
                  /\ hreq' = [h EXCEPT !.pc = "stage", !.stage = 1]
                  /\ UNCHANGED delivered
             ELSE /\ kind = "empty"
                  /\ sendJSON(socket, h, Immediate(route))
    /\ UNCHANGED <<socket, clientVars, userVars, timeVars, schedVars>>

\* parseBody, req.on('data'): one more chunk; past the limit the socket is
\* destroyed and the promise rejected, and the handler's catch answers 400
HttpData ==
    /\ hreq.pc = "body"
    /\ hreq.length < hreq.size
    /\ LET length == hreq.length + 1 IN
       IF length > BodyLimit
       THEN /\ socket' = "destroyed"
            /\ sendJSON("destroyed", [hreq EXCEPT !.length = length], 400)
       ELSE /\ hreq' = [hreq EXCEPT !.length = length]
            /\ UNCHANGED <<socket, delivered>>
    /\ UNCHANGED <<clientVars, userVars, timeVars, schedVars>>

\* parseBody, req.on('end'), and the handler's then: an empty body, text
\* that is no JSON and missing fields are answered 400
HttpEnd ==
    /\ hreq.pc = "body"
    /\ hreq.length = hreq.size
    /\ IF hreq.kind = "ok"
       THEN /\ hreq' = [hreq EXCEPT !.pc = "stage", !.stage = 1]
            /\ UNCHANGED delivered
       ELSE sendJSON(socket, hreq, 400)
    /\ UNCHANGED <<socket, clientVars, userVars, timeVars, schedVars>>

\* the callback of a statement, of bcrypt or of readFile
HttpStage ==
    /\ hreq.pc = "stage"
    /\ LET stages == Stages(hreq.route)
           stage == stages[hreq.stage]
       IN  \E outcome \in Outcomes(hreq.route, stage) :
             IF outcome # "ok"
             THEN sendJSON(socket, hreq, StatusOf(hreq.route, stage, outcome))
             ELSE IF hreq.stage = Len(stages)
             THEN sendJSON(socket, hreq, SuccessStatus(hreq.route))
             ELSE /\ hreq' = [hreq EXCEPT !.stage = hreq.stage + 1]
                  /\ UNCHANGED delivered
    /\ UNCHANGED <<socket, clientVars, userVars, timeVars, schedVars>>

\* the exchange is over; the next request comes on a connection of its own
HttpClose ==
    /\ hreq.pc = "answered"
    /\ hreq' = NoHReq
    /\ socket' = "open"
    /\ delivered' = 0
    /\ UNCHANGED <<clientVars, userVars, timeVars, schedVars>>

HttpNext ==
    \/ HttpRequest
    \/ HttpData
    \/ HttpEnd
    \/ HttpStage
    \/ HttpClose

\* ------------------------------------------------------- specifications
\* the user directory, the validator and the schedules when nothing goes on
UsersAtRest ==
    /\ users = {}
    /\ nextId = 0
    /\ boot = [pc |-> "done", id |-> 0, pwd |-> NoPassword]
    /\ req = [r \in Reqs |-> IdleReq]
    /\ removed = {}
    /\ public = {}

TimeAtRest ==
    /\ time = Undefined
    /\ valid = "none"

SchedAtRest ==
    /\ schedules = {}
    /\ schedSeq = 0
    /\ sreq = NoSReq
    /\ created = NoCreated

\* the pages and the request counter when nothing goes on
CalAtRest ==
    /\ todayYear = 2024
    /\ todayMonth = 1
    /\ displayYear = 2024
    /\ displayMonth = 1
    /\ selectedDate = JSNull
    /\ homeSchedules = {}

SessionAtRest ==
    /\ localStorage = NoSession
    /\ path = "/"
    /\ fetched = NoFetch

HttpAtRest ==
    /\ hreq = NoHReq
    /\ socket = "open"
    /\ delivered = 0

\* validateHour called once with any value
TimeInit ==
    /\ time \in TimeInputs
    /\ valid = "none"
    /\ UsersAtRest
    /\ SchedAtRest
    /\ CalAtRest
    /\ SessionAtRest
    /\ HttpAtRest

ValidateHour ==
    /\ valid = "none"
    /\ valid' = validateHour(time)
    /\ UNCHANGED <<time, userVars, schedVars, clientVars, httpVars>>

TimeNext == ValidateHour

TimeSpec == TimeInit /\ [][TimeNext]_vars

\* the handlers of /schedules on a table that starts empty
SchedInit ==
    /\ SchedAtRest
    /\ UsersAtRest
    /\ TimeAtRest
    /\ CalAtRest
    /\ SessionAtRest
    /\ HttpAtRest

SchedSpec == SchedInit /\ [][SchedNext]_vars

\* ============================================================ the server
\* the user directory as Init has it, beside a validator and a table of
\* schedules that no request comes to
ServerInit ==
    /\ Init
    /\ TimeAtRest
    /\ SchedAtRest
    /\ CalAtRest
    /\ SessionAtRest
    /\ HttpAtRest

Spec == ServerInit /\ [][Next]_vars

\* the calendar of Home, opened on one of the days of Todays
CalInit ==
    /\ \E t \in Todays : /\ todayYear = t[1] /\ todayMonth = t[2]
                         /\ displayYear = t[1] /\ displayMonth = t[2]
    /\ selectedDate = JSNull
    /\ homeSchedules = {}
    /\ SessionAtRest
    /\ HttpAtRest
    /\ UsersAtRest
    /\ TimeAtRest
    /\ SchedAtRest

CalSpec == CalInit /\ [][CalNext]_vars

\* the session a browser holds, from an empty localStorage
SessionInit ==
    /\ SessionAtRest
    /\ CalAtRest
    /\ HttpAtRest
    /\ UsersAtRest
    /\ TimeAtRest
    /\ SchedAtRest

SessionSpec == SessionInit /\ [][SessionNext]_vars

\* requests one after the other; the event loop runs every callback that is
\* due, the store and bcrypt call back, and the client sends its body to the
\* end
HttpInit ==
    /\ HttpAtRest
    /\ CalAtRest
    /\ SessionAtRest
    /\ UsersAtRest
    /\ TimeAtRest
    /\ SchedAtRest

HttpSpec == HttpInit /\ [][HttpNext]_vars /\ WF_vars(HttpNext)


\* ================================================================ claims
IsDone(r, o) == req[r].pc = "done" /\ req[r].op = o
\* the request answered with neither a malformed-body nor a store-failure code
Answered(r) == req[r].res.status \notin {400, 500}

\* `provided` is the password of the user whose stored value is `stored`: the
\* text a digest was made of, or the very text of a legacy plain-text row
IsPasswordOf(provided, stored) ==
    \/ stored.fmt = "$2" /\ provided = Plain(stored.of)
    \/ stored.fmt = "text" /\ provided = stored

\* C1: POST /login answers 200 only for the row of a user that is in the
\* table with approved = 1 when the handler looks the email up, and the user
\* of the answer is that row; for the email of a row with approved = 0 no
\* password, right or wrong, gets a 200.
C1_LoginOnlyApproved ==
    \A r \in Reqs : IsDone(r, "login") =>
        /\ req[r].res.status = 200 =>
              \E u \in users : /\ u.email = req[r].body.email
                               /\ u.id = req[r].res.id
                               /\ u.approved = 1
        /\ (\E u \in users : u.email = req[r].body.email /\ u.approved = 0)
              => req[r].res.status # 200

\* C1 witness: a user that registered, was pending and is now approved has
\* logged in
C1_Witness ==
    \E r \in Reqs : /\ IsDone(r, "login")
                    /\ req[r].res.status = 200
                    /\ req[r].res.id \in public

\* C2: authenticate answers in a fixed order: no row for the email, 404; a
\* row with approved = 0, 403 whatever the password; 401 only for an approved
\* user and a password that is not that user's.
C2_LoginOrder ==
    \A r \in Reqs : (IsDone(r, "login") /\ Answered(r)) =>
        LET u == SelectByEmail(req[r].body.email)
            st == req[r].res.status
        IN  /\ ~HasEmail(req[r].body.email) => st = 404
            /\ (HasEmail(req[r].body.email) /\ u.approved = 0) => st = 403
            /\ st = 401 => /\ HasEmail(req[r].body.email)
                           /\ u.approved = 1
                           /\ ~IsPasswordOf(req[r].body.password, u.password)
            /\ (/\ HasEmail(req[r].body.email) /\ u.approved = 1
                /\ req[r].body.password \in PlainPasswords
                /\ ~IsPasswordOf(req[r].body.password, u.password)) => st = 401

\* C2 witness: a pending user logs in with the right password and gets 403
C2_Witness ==
    \E r \in Reqs :
        /\ IsDone(r, "login")
        /\ req[r].res.status = 403
        /\ \E u \in users : /\ u.email = req[r].body.email
                            /\ u.approved = 0
                            /\ IsPasswordOf(req[r].body.password, u.password)

\* C3: for a user of a public registration with password p whom approve has
\* approved, a login with p answers 200 and a login with any other q answers
\* 401.
C3_ApproveThenAuthenticate ==
    \A r \in Reqs : (IsDone(r, "login") /\ Answered(r)) =>
        \A u \in users :
            (u.email = req[r].body.email /\ u.id \in public /\ u.approved = 1) =>
                IF IsPasswordOf(req[r].body.password, u.password)
                THEN req[r].res.status = 200
                ELSE req[r].res.status = 401


\* C4: in every reachable state, whatever the interleaving of the requests
\* and of the bootstrap, no two rows of users have the same email.
C4_UniqueEmail ==
    \A u, v \in users : u.email = v.email => u = v

\* C4 witness: two POST /users for one email passed the lookup together; one
\* has inserted its row and the other's INSERT is still to come
C4_Witness ==
    \E r, q \in Reqs :
        /\ IsDone(r, "users") /\ req[r].res.status = 201
        /\ req[q].pc = "hash"
        /\ req[q].body.email = req[r].body.email

\* a POST /users whose body has name, email and password
WellFormed(body) ==
    /\ body.kind = "json"
    /\ body.name # "" /\ body.email # "" /\ body.password # NoPassword

\* the step of request r from idle into handler o
Starts(r, o) == req[r].pc = "idle" /\ req'[r].pc # "idle" /\ req'[r].op = o

\* C5: a POST /users for an email that a row holds is answered 409 (500 if
\* the store fails the lookup), at once, and the step changes nothing in the
\* table: no row added, no row changed, no id consumed.
C5_DuplicateEmail ==
    [][\A r \in Reqs :
          (/\ Starts(r, "users")
           /\ WellFormed(req'[r].body)
           /\ HasEmail(req'[r].body.email))
          => /\ req'[r].pc = "done"
             /\ req'[r].res.status \in {409, 500}
             /\ users' = users
             /\ nextId' = nextId]_vars

\* C5 witness: a POST /users for a held email was answered 409
C5_Witness ==
    \E r \in Reqs : /\ IsDone(r, "users")
                    /\ req[r].res.status = 409
                    /\ HasEmail(req[r].body.email)
                    /\ WellFormed(req[r].body)

\* C6: the row of a public registration (a body with name, email, password
\* and cpf only) is stored with approved = 0 and is_admin = 0, is in
\* listPending and not in listApproved; and a row with approved = 0 leaves
\* listPending for listApproved only in a step of approve on its id.
C6_PublicIsPending ==
    /\ [](\A r \in Reqs :
            (IsDone(r, "users") /\ req[r].res.status = 201 /\ IsPublic(req[r].body))
            => \E u \in users :
                  /\ u.id = req[r].res.id
                  /\ u.email = req[r].body.email
                  /\ u.approved = 0 /\ u.is_admin = 0
                  /\ Public(u) \in listPending
                  /\ Public(u) \notin listApproved)
    /\ [][\A u \in users :
            (u.approved = 0 /\ \E v \in users' : v.id = u.id /\ v.approved # 0)
            => \E r \in Reqs : /\ Starts(r, "approve")
                               /\ req'[r].body.id = u.id
                               /\ req'[r].res.status = 200]_vars

\* C6 witness: a public registration has been answered 201
C6_Witness ==
    \E r \in Reqs : /\ IsDone(r, "users")
                    /\ req[r].res.status = 201
                    /\ IsPublic(req[r].body)
                    /\ req[r].res.id \in {u.id : u \in listPending}

\* C7: the row POST /users creates has the approved and is_admin the caller
\* supplied, for every combination of the two flags given as 1/0 or as
\* true/false.
C7_FlagsAsSupplied ==
    \A r \in Reqs :
        (/\ IsDone(r, "users") /\ req[r].res.status = 201
         /\ req[r].body.approved # "undefined"
         /\ req[r].body.is_admin # "undefined")
        => \E u \in users : /\ u.id = req[r].res.id
                            /\ u.approved = Meant(req[r].body.approved)
                            /\ u.is_admin = Meant(req[r].body.is_admin)


\* the body of a request on an id carries one
HasBodyId(body) == body.kind = "json" /\ body.id # NoId

\* C8: approve(id) on a row sets its approved to 1 and changes no other
\* column of it and no other row; on a row already approved it answers 200
\* and leaves the table as it is; on an id no row has it answers 404 and
\* leaves the table as it is (500, table unchanged, if the store fails).
C8_Approve ==
    [][\A r \in Reqs : Starts(r, "approve") =>
          LET id == req'[r].body.id
              st == req'[r].res.status
          IN  /\ req'[r].pc = "done"
              /\ nextId' = nextId
              /\ (HasBodyId(req'[r].body) /\ HasId(id)) => st \in {200, 500}
              /\ (HasBodyId(req'[r].body) /\ ~HasId(id)) => st \in {404, 500}
              /\ st = 200 =>
                    /\ \E u \in users :
                          /\ u.id = id
                          /\ users' = (users \ {u}) \cup {[u EXCEPT !.approved = 1]}
                          /\ u.approved = 1 => users' = users
              /\ st # 200 => users' = users]_vars

\* C8 witness: approve answered 200 for one row while another row is pending
C8_Witness ==
    \E r \in Reqs :
        /\ IsDone(r, "approve") /\ req[r].res.status = 200
        /\ \E u, v \in users : /\ u.id = req[r].body.id /\ u.approved = 1
                               /\ v.id # u.id /\ v.approved = 0

RemovedIds == {x.id : x \in removed}
RemovedEmails == {x.email : x \in removed}

\* C9 as stated: once reject has removed a user, every later login with that
\* user's email is answered 404.
C9_GoneForGood ==
    \A r \in Reqs :
        (/\ IsDone(r, "login") /\ Answered(r)
         /\ req[r].body.email \in RemovedEmails)
        => req[r].res.status = 404

\* C9 amended: reject(id) deletes the row of id and no other, and the id is
\* never given to another row: approve, toggleAdmin and reject that start
\* after it answer 404 and change nothing; a login with the removed user's
\* email answers 404 as long as no row has been created again with that
\* email; reject of an id no row has answers 404 and changes nothing.
C9_RejectRemoves ==
    /\ [](\A x \in removed : ~HasId(x.id))
    /\ [][\A r \in Reqs :
            /\ Starts(r, "reject") =>
                 LET id == req'[r].body.id
                     st == req'[r].res.status
                 IN  /\ req'[r].pc = "done"
                     /\ (HasBodyId(req'[r].body) /\ ~HasId(id)) => st \in {404, 500}
                     /\ st = 200 =>
                           \E u \in users :
                              /\ u.id = id
                              /\ users' = users \ {u}
                              /\ \A v \in users' : v.id # id /\ v.email # u.email
                              /\ [id |-> id, email |-> u.email] \in removed'
                     /\ st # 200 => users' = users /\ removed' = removed
            /\ \A o \in {"approve", "reject", "admin"} :
                 (Starts(r, o) /\ req'[r].body.id \in RemovedIds)
                 => /\ req'[r].pc = "done"
                    /\ req'[r].res.status \in {404, 500}
                    /\ users' = users
            /\ (/\ Starts(r, "login")
                /\ req'[r].body.email \in RemovedEmails
                /\ ~HasEmail(req'[r].body.email)
                /\ req'[r].body.password # NoPassword)
               => req'[r].res.status \in {404, 500}]_vars

\* C9 witness: a user was removed, and an approve of the removed id that came
\* later was answered 404
C9_Witness ==
    \E r \in Reqs :
        /\ IsDone(r, "approve")
        /\ req[r].body.id \in RemovedIds
        /\ req[r].res.status = 404
        /\ users # {}

\* C10: toggleAdmin(id) answers 404 for an id no row has and changes nothing.
\* On a row it writes the opposite of the is_admin it read, into that row
\* only and into no other column, and answers with the value now stored; when
\* no other write came between its read and its write the stored is_admin
\* goes 0 to 1 or 1 to 0, so that two toggles in a row restore it.
C10_ToggleAdmin ==
    [][\A r \in Reqs :
          /\ Starts(r, "admin") =>
               /\ users' = users
               /\ (HasBodyId(req'[r].body) /\ ~HasId(req'[r].body.id))
                     => req'[r].pc = "done" /\ req'[r].res.status \in {404, 500}
               /\ req'[r].pc = "update"
                     => \E u \in users : /\ u.id = req'[r].body.id
                                         /\ req'[r].row.is_admin = u.is_admin
          /\ (req[r].pc = "update" /\ req'[r].pc = "done") =>
               LET id == req[r].body.id
                   st == req'[r].res.status
                   read == req[r].row.is_admin
                   new == req'[r].res.is_admin
               IN  /\ st # 200 => users' = users
                   /\ st = 200 => /\ new \in {0, 1} /\ new = 1 - read
                                  /\ 1 - new = read
                   /\ (st = 200 /\ HasId(id)) =>
                         \E u \in users :
                            /\ u.id = id
                            /\ users' = (users \ {u}) \cup {[u EXCEPT !.is_admin = new]}
                            /\ read = u.is_admin =>
                                  \E v \in users' : v.id = id /\ v.is_admin = 1 - u.is_admin]_vars

\* C10 witness: a toggle took the admin flag away from a row and said so
C10_Witness ==
    \E r \in Reqs :
        /\ IsDone(r, "admin") /\ req[r].res.status = 200
        /\ req[r].row.is_admin = 1
        /\ req[r].res.is_admin = 0
        /\ \E u \in users : u.id = req[r].body.id /\ u.is_admin = 0

\* the columns of a user that a client may see
PublicFields == {"id", "name", "email", "cpf", "is_admin", "approved"}

\* C11: no response carries the password column: the user object of a 200 of
\* /login and every element of the lists of GET /users/pending and GET
\* /users/approved are made of public columns only, and every row of the
\* table that the list is about is in the list.
C11_NoPasswordInResponses ==
    \A r \in Reqs : req[r].pc = "done" =>
        /\ "password" \notin DOMAIN req[r].res
        /\ (req[r].op = "login" /\ req[r].res.status = 200) =>
              (DOMAIN req[r].res) \ {"status"} \subseteq PublicFields
        /\ (req[r].op \in {"pending", "approved"} /\ req[r].res.status = 200) =>
              /\ \A u \in req[r].res.users : DOMAIN u \subseteq PublicFields
              /\ {u.id : u \in req[r].res.users}
                    = {v.id : v \in {w \in users :
                          w.approved = (IF req[r].op = "pending" THEN 0 ELSE 1)}}

\* C11 witness: a login answered 200 from a row whose password column holds
\* a digest
C11_Witness ==
    \E r \in Reqs :
        /\ IsDone(r, "login")
        /\ req[r].res.status = 200
        /\ req[r].row.password.fmt = "$2"

\* C12: verification goes by the format of the stored value: a login is
\* answered 200 from a row that holds a digest only when the bcrypt compare of
\* the supplied password with it succeeds, so not for the digest text itself;
\* from a row that holds legacy plain text, only for that very text.
C12_DualMode ==
    \A r \in Reqs : (IsDone(r, "login") /\ req[r].res.status = 200) =>
        IF startsWith2(req[r].row.password)
        THEN /\ checkPassword(req[r].body.password, req[r].row.password)
             /\ req[r].body.password # req[r].row.password
        ELSE req[r].body.password = req[r].row.password

\* ------------------------------------------------------- validateHour
\* two digits, a colon, two digits that are a minute
IsHourMinute(s) ==
    /\ Len(s) = 5
    /\ IsDigit(s[1]) /\ IsDigit(s[2])
    /\ s[3] = ":"
    /\ IsDigit(s[4]) /\ IsDigit(s[5])
    /\ DigitOf(s[4]) * 10 + DigitOf(s[5]) <= 59
HourOf(s) == DigitOf(s[1]) * 10 + DigitOf(s[2])
MinutesSinceMidnight(s) == HourOf(s) * 60 + DigitOf(s[4]) * 10 + DigitOf(s[5])

\* C13: for a string, validateHour returns true exactly when the string is
\* HH:MM and its minutes since midnight are in 360..1080: 05:59 false, 06:00
\* and 18:00 true, 18:01 false, and false for the hours 19 to 29.
C13_ValidIffInWindow ==
    (valid # "none" /\ time.type = "string") =>
        /\ valid \in {"true", "false"}
        /\ valid = "true" <=>
              /\ IsHourMinute(time.text)
              /\ MinutesSinceMidnight(time.text) \in 360..1080
        /\ time.text = <<"0", "5", ":", "5", "9">> => valid = "false"
        /\ time.text = <<"0", "6", ":", "0", "0">> => valid = "true"
        /\ time.text = <<"1", "8", ":", "0", "0">> => valid = "true"
        /\ time.text = <<"1", "8", ":", "0", "1">> => valid = "false"
        /\ (IsHourMinute(time.text) /\ HourOf(time.text) \in 19..29)
              => valid = "false"

\* C13 witness: 18:00, the last minute of the window, has been validated
C13_Witness == time = EighteenOClock /\ valid = "true"

\* C15: validateHour returns false, and throws nothing, for a value that is
\* no string (number, null, object, boolean, undefined), for the empty
\* string, and for a string that is not HH:MM: characters or blanks before,
\* inside or after a time, a minute above 59.
C15_MalformedIsFalse ==
    (valid # "none" /\ (time.type # "string" \/ ~IsHourMinute(time.text)))
        => valid = "false"

\* C15 witness: the validator was called with a number, with null, or with
\* 18:00 and a blank after it
C15_Witness ==
    /\ valid = "false"
    /\ \/ time \in {Number(<<"9", "3", "0">>), JSNull}
       \/ time = Str(<<"1", "8", ":", "0", "0", " ">>)

\* ----------------------------------------------------------- /schedules
\* a string HH:MM between 06:00 and 18:00
InWindowTime(t) ==
    /\ t.type = "string"
    /\ IsHourMinute(t.text)
    /\ MinutesSinceMidnight(t.text) \in 360..1080

\* a required field of the body is left out or empty
MissingField(body) ==
    \E f \in {"lawyer", "client", "date", "time"} : body[f] \in {Undefined, Empty}

\* the step answers a request `o` to /schedules
Answers(o) == sreq.op = "none" /\ sreq'.op = o

ScheduleIds == {x.id : x \in schedules}

\* C14: POST /schedules accepts a time with a one-digit hour: a body with
\* all required fields and a time H:MM or HH:MM that the validator of the
\* form accepts (so 9:30, and 6:00 to 9:59) passes validateHour of the server
\* and is answered 201.
C14_SingleDigitHour ==
    (/\ sreq.op = "create"
     /\ sreq.body.kind = "json"
     /\ ~MissingField(sreq.body)
     /\ validateHourAgendamento(sreq.body.time) = "true"
     /\ sreq.res.status # 500)
        => /\ validateHour(sreq.body.time) = "true"
           /\ sreq.res.status = 201

\* C16: every row of schedules has a time HH:MM between 06:00 and 18:00, and
\* no step changes the time of a row that stays in the table.
C16_StoredTimesInWindow ==
    /\ [](\A x \in schedules : InWindowTime(x.time))
    /\ [][\A x \in schedules : \A y \in schedules' :
             x.id = y.id => y.time = x.time]_vars

\* C16 witness: a row made at 18:00 has had its online flag updated
C16_Witness ==
    /\ sreq.op = "update"
    /\ sreq.res.status = 200
    /\ \E x \in schedules : x.id = sreq.id /\ x.time = EighteenOClock

\* C17: POST /schedules answers 400 and leaves the table as it is when one of
\* lawyer, client, date, time is left out or empty (error: fields missing,
\* also when the time is out of the window) and, with all four there, when
\* the time is not a time of the window (error: invalid time).
C17_CreateRejects ==
    [][Answers("create") =>
         LET body == sreq'.body
             res == sreq'.res
         IN  /\ (body.kind = "json" /\ MissingField(body)) =>
                   /\ res.status = 400 /\ res.error = "fields"
                   /\ schedules' = schedules /\ schedSeq' = schedSeq
             /\ (body.kind = "json" /\ ~MissingField(body)
                                    /\ ~InWindowTime(body.time)) =>
                   /\ res.status = 400 /\ res.error = "window"
                   /\ schedules' = schedules /\ schedSeq' = schedSeq
             /\ res.status # 201 =>
                   schedules' = schedules /\ schedSeq' = schedSeq]_vars

\* C17 witness: a body without lawyer and with a time out of the window was
\* answered "fields missing" while the table held a row
C17_Witness ==
    /\ sreq.op = "create"
    /\ sreq.res.error = "fields"
    /\ sreq.body.lawyer = Empty
    /\ sreq.body.time = NineThirty
    /\ schedules # {}

\* two rows of the same lawyer on the same date at the same time
SameSlot(x, y) == x.lawyer = y.lawyer /\ x.date = y.date /\ x.time = y.time

SameButOnline(x, y) ==
    /\ x.id = y.id /\ x.lawyer = y.lawyer /\ x.client = y.client
    /\ x.process_number = y.process_number /\ x.date = y.date
    /\ x.time = y.time /\ x.notes = y.notes

\* true and 1 are 1; false, 0 and no value are 0
Normalized(o) == IF o \in {JSTrue, Number(<<"1">>)} THEN 1 ELSE 0

\* C19: PUT /schedules/:id answered 200 has set online of the row of that id
\* to the online of the patch and has changed no other column of that row and
\* no other row, whatever else the patch carries; a patch without online is
\* answered 400, an id of no row 404 (500 when the store fails), and an
\* answer other than 200 leaves the table as it was.
C19_UpdateOnlyOnline ==
    [][Answers("update") =>
         LET id == sreq'.id
             body == sreq'.body
             res == sreq'.res
         IN  /\ res.status = 200 =>
                   /\ id \in ScheduleIds
                   /\ {y.id : y \in schedules'} = ScheduleIds
                   /\ \A x \in schedules : \A y \in schedules' :
                        x.id = y.id =>
                            /\ SameButOnline(x, y)
                            /\ y.online = IF x.id = id
                                          THEN Normalized(body.online)
                                          ELSE x.online
             /\ (id # NoParam /\ body.kind = "json" /\ body.online = Undefined)
                   => res.status = 400
             /\ (id # NoParam /\ body.kind = "json" /\ body.online # Undefined
                              /\ id \notin ScheduleIds)
                   => res.status \in {404, 500}
             /\ res.status # 200 => schedules' = schedules]_vars

\* C19 witness: a patch with online, lawyer, client, date and time was
\* answered 200 while the table held another row
C19_Witness ==
    /\ sreq.op = "update"
    /\ sreq.res.status = 200
    /\ sreq.body.lawyer # Undefined
    /\ \E x \in schedules : x.id # sreq.id

\* the value of an optional text column for what the body has there
Supplied(v) == IF v = Undefined THEN Empty ELSE v

\* C20: GET /schedules/:id of the id of an accepted POST /schedules, the row
\* not updated since, answers with the lawyer, client, date and time of the
\* body, its process_number and notes (the empty string for one left out),
\* and its online as 0 or 1.
C20_RoundTrip ==
    (sreq.op = "get" /\ sreq.res.status = 200 /\ sreq.id = created.id) =>
        LET row == sreq.res.schedule
            body == created.body
        IN  /\ row.id = created.id
            /\ row.lawyer = body.lawyer
            /\ row.client = body.client
            /\ row.process_number = Supplied(body.process_number)
            /\ row.date = body.date
            /\ row.time = body.time
            /\ row.notes = Supplied(body.notes)
            /\ row.online = Normalized(body.online)

\* C20 witness: the second schedule, made with notes and online: true, has
\* been read back
C20_Witness ==
    /\ sreq.op = "get"
    /\ sreq.res.status = 200
    /\ sreq.id = created.id
    /\ created.id = 2
    /\ created.body.notes = Notes
    /\ created.body.online = JSTrue

\* C21: DELETE /schedules/:id answered 200 has removed the row of that id and
\* no other; an id that AUTOINCREMENT gave and that is in the table no more
\* never comes back, GET, PUT and DELETE of an id of no row are answered 404
\* (500 when the store fails), GET /schedules lists the rows of the table
\* only, and a DELETE not answered 200 leaves the table as it was.
C21_DeleteRemoves ==
    /\ [][Answers("delete") =>
            LET id == sreq'.id
                res == sreq'.res
            IN  /\ res.status = 200 =>
                      /\ id \in ScheduleIds
                      /\ schedules' \subseteq schedules
                      /\ \A x \in schedules : x \in schedules' <=> x.id # id
                /\ (id # NoParam /\ id \notin ScheduleIds)
                      => res.status \in {404, 500}
                /\ res.status # 200 => schedules' = schedules]_vars
    /\ [][\A i \in 1..schedSeq :
            i \notin ScheduleIds => i \notin {y.id : y \in schedules'}]_vars
    /\ []((sreq.op = "get" /\ sreq.id # NoParam /\ sreq.id \notin ScheduleIds)
             => sreq.res.status \in {404, 500})
    /\ []((sreq.op = "update" /\ sreq.id # NoParam /\ sreq.id \notin ScheduleIds
              /\ sreq.body.kind = "json" /\ sreq.body.online # Undefined)
             => sreq.res.status \in {404, 500})
    /\ []((sreq.op = "list" /\ sreq.res.status = 200)
             => {x.id : x \in sreq.res.schedules} = ScheduleIds)

\* C21 witness: the first schedule was deleted, the second is in the table,
\* and a GET of the first has been answered 404
C21_Witness ==
    /\ sreq.op = "get"
    /\ sreq.id = 1
    /\ sreq.res.status = 404
    /\ ScheduleIds = {2}

\* C22: for a date that a row of the table carries, GET /schedules/<date> is
\* answered 200 (500 when the store fails) with the rows of that date, all of
\* them and no other; a date of no row is answered 200 with no rows.
C22_ListByDate ==
    /\ (/\ sreq.op \in {"get", "date"}
        /\ sreq.date \in {x.date : x \in schedules}
        /\ sreq.res.status # 500)
          => /\ sreq.op = "date"
             /\ sreq.res.status = 200
             /\ \A x \in schedules : x \in sreq.res.schedules <=> x.date = sreq.date
             /\ sreq.res.schedules \subseteq schedules
    /\ (/\ sreq.op = "date"
        /\ sreq.date \notin {x.date : x \in schedules}
        /\ sreq.res.status # 500)
          => sreq.res.status = 200 /\ sreq.res.schedules = {}

\* C25: a POST /users whose INSERT finds the email taken, by a registration
\* that ran its lookup at the same time, creates no row and is answered 409.
C25_ConcurrentRegister ==
    [][\A r \in Reqs :
          (/\ req[r].pc = "hash"
           /\ req'[r].pc = "done"
           /\ HasEmail(req[r].body.email))
             => /\ users' = users
                /\ req'[r].res.status = 409]_vars

\* C26: the UPDATE of PUT /users/admin is answered 200 only when the row of
\* the id is in the table afterwards with the is_admin of the answer; when a
\* reject has removed the row since the handler read it, the answer is 404
\* (500 when the store fails).
C26_ToggleAfterReject ==
    [][\A r \in Reqs :
          (req[r].pc = "update" /\ req'[r].pc = "done") =>
             LET id == req[r].body.id
                 res == req'[r].res
             IN  /\ res.status = 200 =>
                       \E u \in users' : u.id = id /\ u.is_admin = res.is_admin
                 /\ ~HasId(id) => res.status \in {404, 500}]_vars

\* the step that ends the bootstrap shows a failure of the store: the first
\* SELECT failed, or a statement that had a row to write or to read left the
\* table as it was
BootStoreFailed ==
    \/ boot.pc = "check"
    \/ /\ boot.pc = "insert"
       /\ ~HasEmail(adminEmail)
       /\ users' = users
    \/ /\ boot.pc \in {"recheck", "update"}
       /\ \E u \in users : u.id = boot.id /\ ~startsWith2(u.password)
       /\ users' = users

\* C30: when the bootstrap ends, the store has not failed it and no reject
\* has removed a row of admin@admin.com, a row of
\* admin@admin.com is in the table with a digest for a password; the bootstrap
\* that found no such row has inserted it with is_admin = 1 and approved = 1,
\* and the one that found a plain-text password has put its digest in its
\* place and changed nothing else.
C30_BootstrapAdmin ==
    [][(/\ boot.pc # "done" /\ boot'.pc = "done"
        /\ ~BootStoreFailed
        /\ adminEmail \notin {x.email : x \in removed}) =>
          /\ \E u \in users' : u.email = adminEmail /\ startsWith2(u.password)
          /\ boot.pc = "insert" =>
                \E u \in users' \ users :
                    /\ u = AdminRow(u.id, hashPassword(adminPassword))
                    /\ users' = users \cup {u}
          /\ boot.pc = "update" =>
                \E u \in users :
                    /\ u.id = boot.id
                    /\ users' = (users \ {u})
                          \cup {[u EXCEPT !.password = hashPassword(u.password)]}]_vars

\* -------- the calendar, reckoned without Date
\* the weekday of day d of month m (1 is January) of year y, 0 for Sunday
MonthOffsets == <<0, 3, 2, 5, 0, 3, 5, 1, 4, 6, 2, 4>>
WeekdayOf(y, m, d) ==
    LET yy == IF m < 3 THEN y - 1 ELSE y IN
    (yy + (yy \div 4) - (yy \div 100) + (yy \div 400) + MonthOffsets[m] + d) % 7
IsLeapYear(y) == (y % 4 = 0 /\ y % 100 # 0) \/ y % 400 = 0
LengthOfMonth(y, m) ==
    IF m = 2 THEN (IF IsLeapYear(y) THEN 29 ELSE 28)
    ELSE IF m \in {4, 6, 9, 11} THEN 30
    ELSE 31

\* C23: the grid of the displayed month has as many cells as the smallest
\* multiple of 7 that is not below the weekday of day 1 plus the days of the
\* month; day 1 is in the cell whose index is the weekday of the first of the
\* month (0 is Sunday), and the cells from there on, as many as the month has
\* days, hold the day numbers 1, 2, ... in turn, all others none; February
\* 2024 has day 1 in cell 4, 29 cells with a day, and 35 cells.
C23_Grid ==
    LET grid == calendarCells
        n == Cardinality(DOMAIN grid)
        first == WeekdayOf(displayYear, displayMonth + 1, 1)
        days == LengthOfMonth(displayYear, displayMonth + 1)
        populated == {idx \in DOMAIN grid : grid[idx] # NullCell}
    IN  /\ DOMAIN grid = 0..(n - 1)
        /\ n % 7 = 0
        /\ n >= first + days
        /\ n - 7 < first + days
        /\ populated = first..(first + days - 1)
        /\ \A idx \in populated : grid[idx].dayNumber = idx - first + 1
        /\ (displayYear = 2024 /\ displayMonth = 1) =>
              /\ grid[4].dayNumber = 1
              /\ Cardinality(populated) = 29
              /\ n = 35

\* C23 witness: from October 2025 the calendar was taken back to February
\* 2024, whose grid has 35 cells with day 1 in cell 4 and day 29 in cell 32
C23_Witness ==
    /\ todayYear = 2025
    /\ displayYear = 2024
    /\ displayMonth = 1
    /\ DOMAIN calendarCells = 0..34
    /\ calendarCells[3] = NullCell
    /\ calendarCells[4].dayNumber = 1
    /\ calendarCells[32].dayNumber = 29
    /\ calendarCells[33] = NullCell

\* C24: a cell of a day of the displayed month carries the date of that day
\* written YYYY-MM-DD, and has hasEvents exactly when a loaded schedule has
\* that very string for its date; every other cell of the grid is the empty
\* placeholder, with no day number and no mark.
C24_HasEvents ==
    LET grid == calendarCells
        first == WeekdayOf(displayYear, displayMonth + 1, 1)
        days == LengthOfMonth(displayYear, displayMonth + 1)
    IN  \A idx \in DOMAIN grid :
          LET cell == grid[idx]
              day == idx - first + 1
              t == cell.dateStr.text
          IN  IF day \in 1..days
              THEN /\ cell.dayNumber = day
                   /\ cell.dateStr.type = "string"
                   /\ Len(t) = 10
                   /\ t[5] = "-" /\ t[8] = "-"
                   /\ IsDigits(SubSeq(t, 1, 4))
                   /\ IsDigits(SubSeq(t, 6, 7))
                   /\ IsDigits(SubSeq(t, 9, 10))
                   /\ parseInt(SubSeq(t, 1, 4)) = displayYear
                   /\ parseInt(SubSeq(t, 6, 7)) = displayMonth + 1
                   /\ parseInt(SubSeq(t, 9, 10)) = day
                   /\ cell.hasEvents <=>
                         \E x \in homeSchedules : x.date = cell.dateStr
              ELSE /\ cell.dayNumber = 0
                   /\ cell.dateStr = JSNull
                   /\ ~cell.hasEvents

\* C24 witness: with schedules of 2024-02-29 and of "2024-2-9" loaded, the
\* grid of February 2024 marks the 29th and does not mark the 9th
C24_Witness ==
    /\ displayYear = 2024
    /\ displayMonth = 1
    /\ \E x \in homeSchedules : x.date = LeapDay
    /\ \E x \in homeSchedules : x.date = UnpaddedDate
    /\ calendarCells[32].hasEvents
    /\ calendarCells[32].dateStr = LeapDay
    /\ calendarCells[12].dayNumber = 9
    /\ ~calendarCells[12].hasEvents

\* the months since year 0 of the displayed month
DisplayedMonth == displayYear * 12 + displayMonth

\* C28: displayMonth is always in 0..11; a click on the previous month takes
\* the displayed (year, month) back by one month exactly, a click on the next
\* month forward by one month exactly, and each of the two and the click on
\* today leave no date selected.
C28_MonthSteps ==
    /\ [](displayMonth \in 0..11)
    /\ [][gotoPrevMonth =>
            /\ DisplayedMonth' = DisplayedMonth - 1
            /\ selectedDate' = JSNull]_vars
    /\ [][gotoNextMonth =>
            /\ DisplayedMonth' = DisplayedMonth + 1
            /\ selectedDate' = JSNull]_vars
    /\ [][gotoToday =>
            /\ displayYear' = todayYear /\ displayMonth' = todayMonth
            /\ selectedDate' = JSNull]_vars

\* -------- the session, read back from localStorage
\* the stored user is the text of the public fields of u
HoldsUser(storage, u) ==
    LET t == storage.user.text IN
    /\ storage.user.type = "string"
    /\ Len(t) = 10
    /\ parseInt(t[3]) = u.id
    /\ t[5] = u.name
    /\ t[7] = u.email
    /\ parseInt(t[9]) = u.is_admin
\* the stored flag is the text of the is_admin of u
HoldsFlag(storage, u) ==
    storage.is_admin = Str(<<IF u.is_admin = 1 THEN "1" ELSE "0">>)
Succeeds(response) ==
    response.status = 200 /\ response.success
FlagShowsLink(storage) ==
    \/ storage.is_admin = Str(<<"1">>)
    \/ storage.is_admin = Str(<<"t", "r", "u", "e">>)

\* C29 as the specification states it: localStorage changes in no step but
\* a login answered with success and a logout; the login answered with
\* success leaves the public fields of the returned user and the flag of its
\* is_admin stored, every other login leaves localStorage as it was, logout
\* leaves nothing stored, and the admin link is on the page only while the
\* stored flag is '1' or 'true'.
C29_SessionAsStated ==
    /\ [][handleSubmit =>
            IF Succeeds(fetched')
            THEN /\ HoldsUser(localStorage', fetched'.user)
                 /\ HoldsFlag(localStorage', fetched'.user)
            ELSE localStorage' = localStorage]_vars
    /\ [][handleLogout => localStorage' = NoSession]_vars
    /\ [][localStorage' # localStorage =>
            \/ handleSubmit /\ Succeeds(fetched')
            \/ handleLogout]_vars
    /\ [](AdminLinkShown => FlagShowsLink(localStorage))

\* C29, amended: as above, but a localStorage that refuses a write leaves
\* the session of a login answered with success as it was, or with the user
\* stored and the flag as it was, and a localStorage that refuses to be
\* cleared leaves the session as it was at logout.
C29_Session ==
    /\ [][handleSubmit =>
            IF Succeeds(fetched')
            THEN \/ /\ HoldsUser(localStorage', fetched'.user)
                    /\ HoldsFlag(localStorage', fetched'.user)
                 \/ localStorage' = localStorage
                 \/ /\ HoldsUser(localStorage', fetched'.user)
                    /\ localStorage'.is_admin = localStorage.is_admin
            ELSE localStorage' = localStorage]_vars
    /\ [][handleLogout =>
            \/ localStorage' = NoSession
            \/ localStorage' = localStorage]_vars
    /\ [][localStorage' # localStorage =>
            \/ handleSubmit /\ Succeeds(fetched')
            \/ handleLogout]_vars
    /\ [](AdminLinkShown => FlagShowsLink(localStorage))

\* C29 witness: the login of the admin was answered 200, its fields and the
\* flag '1' are stored, and the page shows the admin link
C29_Witness ==
    /\ Succeeds(fetched)
    /\ fetched.user.is_admin = 1
    /\ HoldsUser(localStorage, fetched.user)
    /\ localStorage.is_admin = Str(<<"1">>)
    /\ path = "/home"
    /\ AdminLinkShown

\* C27: every request comes to its answer, the client has then received
\* exactly one response for it, and never receives more than one.
C27_OneResponse ==
    /\ [](delivered <= 1)
    /\ [](hreq.pc = "answered" => delivered = 1)
    /\ [](hreq.pc # "idle" => <>(hreq.pc = "answered"))

====
